---------------------------- MODULE Spec2Model ----------------------------
(***************************************************************************)
(* A model of the joi schema engine: references (lib/ref.js), the string   *)
(* and alternatives types, and the parts of the schema/validation engine   *)
(* those types rest on.                                                    *)
(*                                                                         *)
(* JavaScript values are records tagged by t, so that values of different  *)
(* kinds can be compared.  A string is a sequence of one-character         *)
(* strings.                                                                *)
(***************************************************************************)
EXTENDS Integers, Sequences, FiniteSets, TLC

VARIABLES
    refIn,      \* the arguments of the last Ref.create / Ref.build call
    ref,        \* the reference it returned, or what it threw
    refOut,     \* the outcome of the last operation applied to ref
    chain,      \* the schemas built so far, each builder call working on the last
    calls,      \* the builder calls made so far
    out,        \* the outcome of validating the last schema
    spaces,     \* the namespaces: Joi, then every namespace an extend() call returned
    sets,       \* the Set objects the namespaces hold in _types
    ext         \* the last extend() call, or the outcome of the last use of a type

refVars == <<refIn, ref, refOut>>
schemaVars == <<chain, calls, out>>
extVars == <<spaces, sets, ext>>
vars == <<refIn, ref, refOut, chain, calls, out, spaces, sets, ext>>

-----------------------------------------------------------------------------
(* Bounds of the model *)

MaxKeyLen == 4          \* longest reference key
MaxAncestors == 2       \* deepest state.ancestors
MaxCalls == 3           \* most builder calls made on one chain of schemas
MaxExtends == 2         \* most extend() calls of a run
MaxRegisters == 4       \* most nodes made and registrations done in a run
MaxBuilt == 2           \* most builder calls before two validations of one schema

-----------------------------------------------------------------------------
(* JavaScript values *)

Undefined == [t |-> "undefined"]
Num(n) == [t |-> "number", n |-> n]
Obj(props) == [t |-> "object", props |-> props]

\* Object.assign({}, a, b) on records seen as objects
Assign(a, b) == [k \in DOMAIN a \cup DOMAIN b |-> IF k \in DOMAIN b THEN b[k] ELSE a[k]]

Thrown(message) == [thrown |-> message]
IsThrown(r) == "thrown" \in DOMAIN r

\* key === null
NullKey == <<"null">>

\* key[i] of a JavaScript string (0-based), undefined past the end
CharAt(key, i) == IF i + 1 <= Len(key) THEN key[i + 1] ELSE "undefined"

\* key.slice(n)
Slice(key, n) == SubSeq(key, n + 1, Len(key))

RECURSIVE TrimLeft(_)
TrimLeft(key) == IF key /= <<>> /\ Head(key) = " " THEN TrimLeft(Tail(key)) ELSE key

RECURSIVE TrimRight(_)
TrimRight(key) ==
    IF key /= <<>> /\ key[Len(key)] = " " THEN TrimRight(SubSeq(key, 1, Len(key) - 1)) ELSE key

\* String.prototype.trim
Trim(key) == TrimRight(TrimLeft(key))

\* key.split(separator) with a one-character separator
RECURSIVE Split(_, _)
Split(key, separator) ==
    IF \E i \in 1..Len(key) : key[i] = separator
    THEN LET i == CHOOSE j \in 1..Len(key) :
                    key[j] = separator /\ \A k \in 1..(j - 1) : key[k] /= separator
         IN  <<SubSeq(key, 1, i - 1)>> \o Split(SubSeq(key, i + 1, Len(key)), separator)
    ELSE <<key>>

\* Array.prototype.join: null elements become the empty string
RECURSIVE Join(_, _)
Join(path, glue) ==
    IF path = <<>> THEN <<>>
    ELSE LET first == IF Head(path) = NullKey THEN <<>> ELSE Head(path)
         IN  IF Len(path) = 1 THEN first ELSE first \o glue \o Join(Tail(path), glue)


-----------------------------------------------------------------------------
(* lib/ref.js *)

Null == [t |-> "null"]
Fn(name) == [t |-> "function", name |-> name]
Arr(items) == [t |-> "array", items |-> items]
MapOf(items) == [t |-> "map", items |-> items]

\* this.ancestor === 'root'
AncestorRoot == -1

\* separator: false
SepFalse == "false"

\* internals.defaults
defaults ==
    [adjust |-> Null, iterables |-> Null, map |-> Null, separator |-> ".", type |-> "value"]

\* the default prefixes of internals.context
DefaultPrefix == [global |-> <<"$">>, local |-> <<"#">>, root |-> <<"/">>]

StartsWith(key, p) == Len(key) >= Len(p) /\ SubSeq(key, 1, Len(p)) = p

\* a separator that is a string (truthy), as opposed to false
Truthy(separator) == separator /= SepFalse

\* internals.context
Context(key, prefix) ==
    LET k == Trim(key)
    IN  IF StartsWith(k, prefix.global)
        THEN [key |-> Slice(k, Len(prefix.global)), type |-> "global", root |-> FALSE]
        ELSE IF StartsWith(k, prefix.local)
        THEN [key |-> Slice(k, Len(prefix.local)), type |-> "local", root |-> FALSE]
        ELSE IF StartsWith(k, prefix.root)
        THEN [key |-> Slice(k, Len(prefix.root)), type |-> "value", root |-> TRUE]
        ELSE [key |-> k, type |-> "value", root |-> FALSE]

\* the while loop of internals.ancestor: the first index >= i that holds no separator
RECURSIVE SkipSeparators(_, _, _)
SkipSeparators(key, separator, i) ==
    IF CharAt(key, i) = separator THEN SkipSeparators(key, separator, i + 1) ELSE i

\* internals.ancestor counting every leading separator as a level
AncestorPerSeparator(key, separator) ==
    IF ~Truthy(separator) THEN <<1, 0>>
    ELSE IF CharAt(key, 0) /= separator THEN <<1, 0>>
    ELSE IF CharAt(key, 1) /= separator THEN <<0, 1>>
    ELSE LET i == SkipSeparators(key, separator, 2) IN <<i, i>>

\* internals.ancestor: <<ancestor, slice>>
Ancestor(key, separator) ==
    IF ~Truthy(separator) THEN <<1, 0>>
    ELSE IF CharAt(key, 0) /= separator THEN <<1, 0>>
    ELSE IF CharAt(key, 1) /= separator THEN <<0, 1>>
    ELSE LET i == SkipSeparators(key, separator, 2) IN <<i - 1, i>>

\* the one-character strings keys and separators are made of
KeyChars == {".", "x", "$", "#", "/"}

\* the separators the constructor accepts: false, or a string of length 1
ValidSeparator(separator) == separator = SepFalse \/ separator \in KeyChars \cup {" "}

\* the lead of updateDisplay: ancestor + 1 separators
RECURSIVE Lead(_, _)
Lead(separator, n) == IF n <= 0 THEN <<>> ELSE <<separator>> \o Lead(separator, n - 1)

\* Ref.updateDisplay
Display(type, separator, ancestor, hasAncestor, key) ==
    LET k == IF key = NullKey THEN <<"n", "u", "l", "l">> ELSE key
    IN  IF type /= "value" THEN <<"ref:", type, ":">> \o k
        ELSE IF ~Truthy(separator) THEN <<"ref:">> \o k
        ELSE IF ~hasAncestor \/ ancestor = 0 THEN <<"ref:", separator>> \o k
        ELSE IF ancestor = AncestorRoot THEN <<"ref:", "root", ":">> \o k
        ELSE IF ancestor = 1 THEN <<"ref:">> \o k
        ELSE <<"ref:">> \o Lead(separator, ancestor + 1)
                \o (IF key = NullKey THEN <<>> ELSE key)

\* new internals.Ref(options) without the assertion on the ancestor of a
\* reference that is not a value reference
NewRefAnyAncestor(options) ==
    LET o == Assign(defaults, options)
        key == IF Len(o.path) > 0
               THEN Join(o.path, IF Truthy(o.separator) THEN <<o.separator>>
                                 ELSE <<"f", "a", "l", "s", "e">>)
               ELSE NullKey
        own == [depth |-> Len(o.path),
                key |-> key,
                root |-> IF Len(o.path) > 0 THEN o.path[1] ELSE <<"undefined">>,
                map |-> IF o.map.t = "array" THEN MapOf(o.map.items) ELSE o.map,
                display |-> Display(o.type, o.separator,
                                    IF "ancestor" \in DOMAIN o THEN o.ancestor ELSE 0,
                                    "ancestor" \in DOMAIN o, key)]
    IN  IF ~ValidSeparator(o.separator) THEN Thrown("Invalid separator")
        ELSE IF o.adjust /= Null /\ o.adjust.t /= "function"
        THEN Thrown("options.adjust must be a function")
        ELSE IF o.map /= Null /\ o.map.t /= "array" THEN Thrown("options.map must be an array")
        ELSE IF o.map /= Null /\ o.adjust /= Null
        THEN Thrown("Cannot set both map and adjust options")
        ELSE Assign(o, own)

\* new internals.Ref(options)
NewRef(options) ==
    LET o == Assign(defaults, options)
        key == IF Len(o.path) > 0
               THEN Join(o.path, IF Truthy(o.separator) THEN <<o.separator>>
                                 ELSE <<"f", "a", "l", "s", "e">>)
               ELSE NullKey
        own == [depth |-> Len(o.path),
                key |-> key,
                root |-> IF Len(o.path) > 0 THEN o.path[1] ELSE <<"undefined">>,
                map |-> IF o.map.t = "array" THEN MapOf(o.map.items) ELSE o.map,
                display |-> Display(o.type, o.separator,
                                    IF "ancestor" \in DOMAIN o THEN o.ancestor ELSE 0,
                                    "ancestor" \in DOMAIN o, key)]
    IN  IF ~ValidSeparator(o.separator) THEN Thrown("Invalid separator")
        ELSE IF o.adjust /= Null /\ o.adjust.t /= "function"
        THEN Thrown("options.adjust must be a function")
        ELSE IF o.map /= Null /\ o.map.t /= "array" THEN Thrown("options.map must be an array")
        ELSE IF o.map /= Null /\ o.adjust /= Null
        THEN Thrown("Cannot set both map and adjust options")
        ELSE IF o.type /= "value" /\ "ancestor" \in DOMAIN o
        THEN Thrown("Non-value references cannot reference ancestors")
        ELSE Assign(o, own)

\* exports.create
Create(key, options) ==
    LET prefix == IF "prefix" \in DOMAIN options THEN options.prefix ELSE DefaultPrefix
        ref0 == Assign(defaults,
                       [k \in DOMAIN options \ {"prefix"} |-> options[k]])
        separator == ref0.separator
        context == Context(key, prefix)
        key1 == context.key
        rooted == context.type = "value" /\ context.root
        \* if (context.root)
        key2 == IF rooted /\ key1 = <<>> THEN NullKey ELSE key1
        ref1 == IF rooted THEN Assign(ref0, [ancestor |-> AncestorRoot]) ELSE ref0
        self == Truthy(separator) /\ key2 = <<separator>>
        found == Ancestor(key2, separator)
        sliced == IF found[2] > 0 THEN Slice(key2, found[2]) ELSE key2
        \* the key and the ancestor after the if (ref.type === 'value') block
        key3 == IF context.type /= "value" THEN key1
                ELSE IF self THEN NullKey
                ELSE IF "ancestor" \in DOMAIN ref1 THEN key2
                ELSE IF found[2] > 0 /\ sliced = <<>> THEN NullKey ELSE sliced
        ref2 == IF context.type /= "value" THEN ref0
                ELSE IF self THEN Assign(ref1, [ancestor |-> 0])
                ELSE IF "ancestor" \in DOMAIN ref1 THEN ref1
                ELSE Assign(ref1, [ancestor |-> found[1]])
        path == IF Truthy(separator)
                THEN (IF key3 = NullKey THEN <<>> ELSE Split(key3, separator))
                ELSE <<key3>>
    IN  IF rooted /\ Truthy(separator) /\ CharAt(key1, 0) = separator
        THEN Thrown("Cannot specify relative path with root prefix")
        ELSE IF /\ context.type = "value" /\ ~self /\ "ancestor" \in DOMAIN ref1
                /\ Truthy(separator) /\ key2 /= NullKey /\ key2 /= <<>>
                /\ CharAt(key2, 0) = separator
        THEN Thrown("Cannot combine prefix with ancestor option")
        ELSE NewRef(Assign(Assign(ref2, [type |-> context.type]), [path |-> path]))

\* Ref.describe leaving out every falsy ancestor
DescribeTruthyAncestor(r) ==
    LET d0 == [path |-> r.path]
        d1 == IF r.type /= "value" THEN Assign(d0, [type |-> r.type]) ELSE d0
        d2 == IF r.separator /= "." THEN Assign(d1, [separator |-> r.separator]) ELSE d1
        d3 == IF r.type = "value" /\ "ancestor" \in DOMAIN r /\ r.ancestor \notin {0, 1}
              THEN Assign(d2, [ancestor |-> r.ancestor])
              ELSE d2
        d4 == IF r.map /= Null THEN Assign(d3, [map |-> Arr(r.map.items)]) ELSE d3
        d5 == IF r.adjust /= Null THEN Assign(d4, [adjust |-> r.adjust]) ELSE d4
    IN  IF r.iterables /= Null THEN Assign(d5, [iterables |-> r.iterables]) ELSE d5

\* Ref.describe: the ref part of the descriptor
Describe(r) ==
    LET d0 == [path |-> r.path]
        d1 == IF r.type /= "value" THEN Assign(d0, [type |-> r.type]) ELSE d0
        d2 == IF r.separator /= "." THEN Assign(d1, [separator |-> r.separator]) ELSE d1
        d3 == IF r.type = "value" /\ ~("ancestor" \in DOMAIN r /\ r.ancestor = 1)
              THEN (IF "ancestor" \in DOMAIN r THEN Assign(d2, [ancestor |-> r.ancestor]) ELSE d2)
              ELSE d2
        d4 == IF r.map /= Null THEN Assign(d3, [map |-> Arr(r.map.items)]) ELSE d3
        d5 == IF r.adjust /= Null THEN Assign(d4, [adjust |-> r.adjust]) ELSE d4
    IN  IF r.iterables /= Null THEN Assign(d5, [iterables |-> r.iterables]) ELSE d5

\* exports.build
Build(desc) ==
    LET d == Assign(defaults, desc)
    IN  IF d.type = "value" /\ "ancestor" \notin DOMAIN d
        THEN NewRef(Assign(d, [ancestor |-> 1]))
        ELSE NewRef(d)

\* Ref.clone
Clone(r) == NewRef(r)


\* Hoek.reach(target, path): follows the path through nested objects and gives
\* undefined as soon as a segment is missing
RECURSIVE Reach(_, _)
Reach(target, path) ==
    IF path = <<>> THEN target
    ELSE IF target.t = "object" /\ Head(path) \in DOMAIN target.props
    THEN Reach(target.props[Head(path)], Tail(path))
    ELSE Undefined

\* state.mainstay.shadow.get(path)
ShadowGet(shadow, path) == Reach(shadow, path)

\* this.adjust(resolved) for the adjust functions of the model
Apply(fn, v) == IF fn.name = "inc" /\ v.t = "number" THEN Num(v.n + 1) ELSE v

\* this.map.get(resolved): the mapped value of the last entry whose key is
\* resolved (new Map(entries) keeps the last entry of a key), undefined without one
MapGet(map, v) ==
    IF \E i \in 1..Len(map.items) : map.items[i][1] = v
    THEN map.items[CHOOSE i \in 1..Len(map.items) :
                       /\ map.items[i][1] = v
                       /\ \A j \in (i + 1)..Len(map.items) : map.items[j][1] /= v][2]
    ELSE Undefined

\* Ref._resolve
ResolveTarget(r, target, state, options) ==
    LET shadowed == IF r.type = "value" /\ state.mainstay.shadow /= Null /\ options.shadow
                    THEN ShadowGet(state.mainstay.shadow, r.path)
                    ELSE Undefined
        reached == IF shadowed = Undefined THEN Reach(target, r.path) ELSE shadowed
        adjusted == IF r.adjust /= Null THEN Apply(r.adjust, reached) ELSE reached
    IN  IF r.map /= Null /\ MapGet(r.map, adjusted) /= Undefined
        THEN MapGet(r.map, adjusted)
        ELSE adjusted

\* state.ancestors[i] (0-based), undefined outside the array
AncestorAt(state, i) ==
    IF 0 <= i /\ i < Len(state.ancestors) THEN state.ancestors[i + 1] ELSE Undefined

\* Target without the assertion on the ancestor depth
TargetNoAssert(r, value, state, prefs, local) ==
    IF r.type = "global" THEN prefs.context
    ELSE IF r.type = "local" THEN local
    ELSE IF "ancestor" \notin DOMAIN r \/ r.ancestor = 0 THEN value
    ELSE IF r.ancestor = AncestorRoot THEN AncestorAt(state, Len(state.ancestors) - 1)
    ELSE AncestorAt(state, r.ancestor - 1)

\* Target indexing state.ancestors by the ancestor itself
TargetOffByOne(r, value, state, prefs, local) ==
    IF r.type = "global" THEN prefs.context
    ELSE IF r.type = "local" THEN local
    ELSE IF "ancestor" \notin DOMAIN r \/ r.ancestor = 0 THEN value
    ELSE IF r.ancestor = AncestorRoot THEN AncestorAt(state, Len(state.ancestors) - 1)
    ELSE IF ~(r.ancestor <= Len(state.ancestors))
    THEN Thrown("Invalid reference exceeds the schema root")
    ELSE AncestorAt(state, r.ancestor)

\* Target reading a root reference from the innermost ancestor
TargetRootFirst(r, value, state, prefs, local) ==
    IF r.type = "global" THEN prefs.context
    ELSE IF r.type = "local" THEN local
    ELSE IF "ancestor" \notin DOMAIN r \/ r.ancestor = 0 THEN value
    ELSE IF r.ancestor = AncestorRoot THEN AncestorAt(state, 0)
    ELSE IF ~(r.ancestor <= Len(state.ancestors))
    THEN Thrown("Invalid reference exceeds the schema root")
    ELSE AncestorAt(state, r.ancestor - 1)

\* the target Ref.resolve hands to _resolve, or what it throws
Target(r, value, state, prefs, local) ==
    IF r.type = "global" THEN prefs.context
    ELSE IF r.type = "local" THEN local
    ELSE IF "ancestor" \notin DOMAIN r \/ r.ancestor = 0 THEN value
    ELSE IF r.ancestor = AncestorRoot THEN AncestorAt(state, Len(state.ancestors) - 1)
    ELSE IF ~(r.ancestor <= Len(state.ancestors))
    THEN Thrown("Invalid reference exceeds the schema root")
    ELSE AncestorAt(state, r.ancestor - 1)

\* Ref.resolve
Resolve(r, value, state, prefs, local, options) ==
    LET target == Target(r, value, state, prefs, local)
    IN  IF IsThrown(target) THEN target ELSE ResolveTarget(r, target, state, options)


-----------------------------------------------------------------------------
(* The inputs of the reference operations *)

\* the keys handed to Ref.create: every string of at most MaxKeyLen characters
\* and a few short ones padded with spaces
Keys ==
    UNION {[1..n -> KeyChars] : n \in 0..MaxKeyLen}
    \cup {<<" ">> \o k \o <<" ">> : k \in UNION {[1..n -> KeyChars] : n \in 0..2}}

\* a map option and an adjust option
SomeMap == Arr(<< <<Num(1), Num(41)>>, <<Undefined, Num(42)>> >>)
SomeAdjust == Fn("inc")

\* a map option with an entry whose value is undefined
UndefinedMap == Arr(<< <<Num(1), Undefined>>, <<Num(2), Num(43)>> >>)

\* the options handed to Ref.create
CreateOptions ==
    {Assign(s, a) :
        s \in {<<>>, [separator |-> "/"], [separator |-> SepFalse]},
        a \in {<<>>, [ancestor |-> 0], [ancestor |-> 2]}}
    \cup {[map |-> SomeMap], [adjust |-> SomeAdjust], [map |-> SomeMap, adjust |-> SomeAdjust],
          [map |-> UndefinedMap]}

\* the descriptions handed to Ref.build
BuildDescs ==
    {Assign([path |-> << <<"x">> >>], Assign(t, a)) :
        t \in {<<>>, [type |-> "global"], [type |-> "local"]},
        a \in {<<>>, [ancestor |-> 0], [ancestor |-> 1], [ancestor |-> 2]}}

\* an object tree whose leaf tells where it was read from
Tree(n) == Obj((<<"x">> :> Obj((<<"x">> :> Num(n)) @@ (<<>> :> Num(n + 50)))))

\* the ancestors of a value nested n levels deep: parent first, root last
AncestorsOf(n) == [i \in 1..n |-> Tree(i)]

\* mainstay.shadow and options.shadow of a resolve call
ResolveEnvs ==
    {[shadow |-> Null, options |-> [shadow |-> TRUE]],
     [shadow |-> Tree(30), options |-> [shadow |-> TRUE]],
     [shadow |-> Tree(30), options |-> [shadow |-> FALSE]]}

RefInit ==
    /\ refIn = [op |-> "none"]
    /\ ref = [t |-> "none"]
    /\ refOut = [op |-> "none"]
    /\ chain = <<>> /\ calls = <<>> /\ out = [op |-> "none"]
    /\ spaces = <<>> /\ sets = <<>> /\ ext = [op |-> "none"]

\* Joi.ref(key, options)
RefCreate(key, options) ==
    /\ refIn.op = "none"
    /\ refIn' = [op |-> "create", key |-> key, options |-> options]
    /\ ref' = Create(key, options)
    /\ refOut' = [op |-> "none"]
    /\ UNCHANGED <<schemaVars, extVars>>

\* Joi.build of a description holding a reference: Ref.build(desc)
RefBuild(desc) ==
    /\ refIn.op = "none"
    /\ refIn' = [op |-> "build", desc |-> desc]
    /\ ref' = Build(desc)
    /\ refOut' = [op |-> "none"]
    /\ UNCHANGED <<schemaVars, extVars>>

\* ref.resolve(value, state, prefs, local, options) during a validation
RefResolve(depth, shadow, options) ==
    /\ refIn.op = "create" /\ ~IsThrown(ref) /\ refOut.op = "none"
    /\ LET state == [ancestors |-> AncestorsOf(depth), mainstay |-> [shadow |-> shadow]]
           prefs == [context |-> Tree(10)]
           value == Tree(0)
           local == Tree(20)
       IN  refOut' = [op |-> "resolve", value |-> value, state |-> state, prefs |-> prefs,
                      local |-> local, options |-> options,
                      target |-> Target(ref, value, state, prefs, local),
                      result |-> Resolve(ref, value, state, prefs, local, options)]
    /\ UNCHANGED <<refIn, ref, schemaVars, extVars>>

\* Ref.build(ref.describe().ref)
RefDescribeBuild ==
    /\ refIn.op = "create" /\ ~IsThrown(ref) /\ refOut.op = "none"
    /\ refOut' = [op |-> "build", desc |-> Describe(ref), result |-> Build(Describe(ref))]
    /\ UNCHANGED <<refIn, ref, schemaVars, extVars>>

\* ref.clone()
RefClone ==
    /\ refIn.op \in {"create", "build"} /\ ~IsThrown(ref) /\ refOut.op = "none"
    /\ refOut' = [op |-> "clone", result |-> Clone(ref)]
    /\ UNCHANGED <<refIn, ref, schemaVars, extVars>>

RefNext ==
    \/ /\ refIn.op = "none"
       /\ \E key \in Keys, options \in CreateOptions : RefCreate(key, options)
    \/ /\ refIn.op = "none"
       /\ \E desc \in BuildDescs : RefBuild(desc)
    \/ /\ refIn.op = "create" /\ refOut.op = "none"
       /\ \E depth \in 0..MaxAncestors, env \in ResolveEnvs :
            RefResolve(depth, env.shadow, env.options)
    \/ RefDescribeBuild
    \/ RefClone

SpecRef == RefInit /\ [][RefNext]_vars


-----------------------------------------------------------------------------
(* Schemas: lib/base.js, as far as the types below need it *)

Str(chars) == [t |-> "string", s |-> chars]
Bool(b) == [t |-> "boolean", b |-> b]

\* a regular expression matching one literal character
\* a regular expression of one character; lastIndex is where a sticky or global
\* match starts, 0 when the expression is made
RegExp(char, flags) == [t |-> "regexp", source |-> char, flags |-> flags, lastIndex |-> 0]

\* a validation error of helpers.error(code, local); the code is kept as its
\* segments, 'string.min' as <<"string", "min">>
Error(code, local) == [code |-> code, local |-> local]

\* a fresh schema of a type: no flags, no rules, the terms its initialize hook sets
NewSchema(type, terms) ==
    [type |-> type, flags |-> <<>>, allow |-> <<>>, rules |-> <<>>, terms |-> terms,
     refs |-> <<>>]

\* schema._flags[name], undefined when the flag is not set
Flag(schema, name) == IF name \in DOMAIN schema.flags THEN <<schema.flags[name]>> ELSE <<>>

\* schema.clone(): every builder works on a copy with its own rules, terms and flags
CloneSchema(schema) == [f \in DOMAIN schema |-> schema[f]]

\* schema.$_setFlag(name, value)
SetFlag(schema, name, value) ==
    [CloneSchema(schema) EXCEPT !.flags = Assign(@, (name :> value))]

\* schema.$_getRule(name): the one rule of that name, for rules that are not multi
HasRule(schema, name) == \E i \in 1..Len(schema.rules) : schema.rules[i].name = name
GetRule(schema, name) ==
    schema.rules[CHOOSE i \in 1..Len(schema.rules) : schema.rules[i].name = name]

\* a rule of the ruleset: { name, method, args, operator, errorCode }
Rule(name, method, args, operator, errorCode) ==
    [name |-> name, method |-> method, args |-> args, operator |-> operator,
     errorCode |-> errorCode]

\* the rule definitions of string (and any) declared multi: true, none of them multi
NoRuleMulti(method) == FALSE

\* the rule definitions of string (and any) declared multi: true
RuleMulti(method) == method \in {"pattern", "warning"}

\* the rule definitions of string declared convert: true, none of them so
NoRuleConvert(method) == FALSE

\* the rule definitions of string declared convert: true
RuleConvert(method) == method \in {"case", "normalize", "trim"}

\* Common.limit: a non-negative integer
Limit(value) == value.t = "number" /\ value.n >= 0

\* Common.isResolvable: a reference (templates are not modelled)
IsResolvable(value) == "depth" \in DOMAIN value

\* the options of a resolve call made with none: options.shadow !== false
NoOptions == [shadow |-> TRUE]

\* schema.$_addRule(rule): the rule is appended, except that a rule that is not multi
\* takes the place of the earlier rule of the same name
AddRule(schema, rule) ==
    LET obj == CloneSchema(schema)
        n == Len(obj.rules)
    IN  IF rule.method = "length" /\ ~IsResolvable(rule.args.limit) /\ ~Limit(rule.args.limit)
        THEN Thrown("limit must be a positive integer or reference")
        ELSE IF ~RuleMulti(rule.method) /\ HasRule(obj, rule.name)
        THEN [obj EXCEPT !.rules =
                [i \in 1..n |-> IF obj.rules[i].name = rule.name THEN rule ELSE obj.rules[i]]]
        ELSE [obj EXCEPT !.rules = Append(@, rule)]

-----------------------------------------------------------------------------
(* lib/types/string/index.js *)

\* String.prototype.toLocaleUpperCase / toLocaleLowerCase on the letters of the model
UpperChar(c) == IF c = "a" THEN "A" ELSE c
LowerChar(c) == IF c = "A" THEN "a" ELSE c
ToUpperCase(chars) == [i \in 1..Len(chars) |-> UpperChar(chars[i])]
ToLowerCase(chars) == [i \in 1..Len(chars) |-> LowerChar(chars[i])]

\* regex.test(value)
Test(regex, chars) == \E i \in 1..Len(chars) : chars[i] = regex.source

\* value.replace(pattern, replacement): every match with the g flag, else the first
RECURSIVE ReplaceAll(_, _, _)
ReplaceAll(chars, char, replacement) ==
    IF chars = <<>> THEN <<>>
    ELSE (IF Head(chars) = char THEN replacement ELSE <<Head(chars)>>)
            \o ReplaceAll(Tail(chars), char, replacement)

ReplaceFirst(chars, char, replacement) ==
    IF \E i \in 1..Len(chars) : chars[i] = char
    THEN LET i == CHOOSE j \in 1..Len(chars) :
                    chars[j] = char /\ \A k \in 1..(j - 1) : chars[k] /= char
         IN  SubSeq(chars, 1, i - 1) \o replacement \o SubSeq(chars, i + 1, Len(chars))
    ELSE chars

\* with the g and y flags: the matches in a row from the start of the value
RECURSIVE ReplaceLeading(_, _, _)
ReplaceLeading(chars, char, replacement) ==
    IF chars /= <<>> /\ Head(chars) = char
    THEN replacement \o ReplaceLeading(Tail(chars), char, replacement)
    ELSE chars

\* a sticky pattern matches at pattern.lastIndex and nowhere else
MatchesAtLastIndex(chars, pattern) ==
    pattern.lastIndex < Len(chars) /\ chars[pattern.lastIndex + 1] = pattern.source

\* value.replace(pattern, replacement): every match with the g flag, the match
\* at lastIndex with the y flag alone, else the first match
Replace(chars, pattern, replacement) ==
    IF "g" \in pattern.flags
    THEN (IF "y" \in pattern.flags THEN ReplaceLeading(chars, pattern.source, replacement)
          ELSE ReplaceAll(chars, pattern.source, replacement))
    ELSE IF "y" \in pattern.flags
    THEN (IF MatchesAtLastIndex(chars, pattern)
          THEN SubSeq(chars, 1, pattern.lastIndex) \o replacement
                    \o SubSeq(chars, pattern.lastIndex + 2, Len(chars))
          ELSE chars)
    ELSE ReplaceFirst(chars, pattern.source, replacement)

\* pattern.lastIndex after value.replace(pattern, replacement): with the g flag
\* the search starts from 0 and ends on a failure, which leaves 0; with the y
\* flag alone a match leaves the index after it and a failure 0; without
\* either the index is not written
LastIndexAfter(chars, pattern) ==
    IF "g" \in pattern.flags THEN 0
    ELSE IF "y" \in pattern.flags
    THEN (IF MatchesAtLastIndex(chars, pattern) THEN pattern.lastIndex + 1 ELSE 0)
    ELSE pattern.lastIndex

\* the replacements after the loop of coerce, which writes the lastIndex of
\* their patterns
RECURSIVE ExecReplacements(_, _)
ExecReplacements(chars, replacements) ==
    IF replacements = <<>> THEN <<>>
    ELSE LET item == Head(replacements)
         IN  <<[item EXCEPT !.pattern.lastIndex = LastIndexAfter(chars, item.pattern)]>>
                \o ExecReplacements(Replace(chars, item.pattern, item.replacement),
                                     Tail(replacements))

\* the loop over schema.$_terms.replacements in coerce
RECURSIVE ApplyReplacements(_, _)
ApplyReplacements(chars, replacements) ==
    IF replacements = <<>> THEN chars
    ELSE ApplyReplacements(Replace(chars, Head(replacements).pattern,
                                   Head(replacements).replacement),
                           Tail(replacements))

\* value.slice(0, limit)
SliceTo(chars, limit) == SubSeq(chars, 1, IF limit < Len(chars) THEN limit ELSE Len(chars))

\* initialize: schema.$_terms.replacements = null
StringSchema == NewSchema("string", [replacements |-> Null])

\* the end of coerce.method cutting the value without a look at what the
\* reference resolved to
TruncateUnchecked(rule, value, state, prefs) ==
    IF IsResolvable(rule.args.limit)
    THEN LET limit == Resolve(rule.args.limit, value, state, prefs, Undefined, NoOptions)
         IN  IF ~Limit(limit) THEN [value |-> value, errors |-> <<>>]
             ELSE [value |-> Str(SliceTo(value.s, limit.n)), errors |-> <<>>]
    ELSE [value |-> Str(SliceTo(value.s, rule.args.limit.n)), errors |-> <<>>]

\* the end of coerce.method: the value cut to the limit of the max rule, a limit
\* given as a reference being resolved and checked first
Truncate(rule, value, state, prefs) ==
    IF IsResolvable(rule.args.limit)
    THEN LET limit == Resolve(rule.args.limit, value, state, prefs, Undefined, NoOptions)
         IN  IF ~Limit(limit)
             THEN [value |-> value,
                   errors |-> <<Error(<<"any", "ref">>,
                                      [ref |-> rule.args.limit, arg |-> "limit",
                                       reason |-> "must be a positive integer"])>>]
             ELSE [value |-> Str(SliceTo(value.s, limit.n)), errors |-> <<>>]
    ELSE [value |-> Str(SliceTo(value.s, rule.args.limit.n)), errors |-> <<>>]

\* coerce.method: a value of odd length gets a 0 in front under hex({ byteAligned: true })
HexPad(schema, chars) ==
    IF HasRule(schema, "hex") /\ GetRule(schema, "hex").args.options.byteAligned
            /\ Len(chars) % 2 /= 0
    THEN <<"0">> \o chars
    ELSE chars

\* the coerce hook truncating the value first, before case, trim, replacements
\* and padding
StringCoerceTruncateFirst(schema, value, state, prefs) ==
    LET cut == IF Flag(schema, "truncate") = <<TRUE>> /\ HasRule(schema, "max")
               THEN Truncate(GetRule(schema, "max"), value, state, prefs)
               ELSE [value |-> value, errors |-> <<>>]
        v1 == cut.value.s
        v2 == IF HasRule(schema, "case")
              THEN (IF GetRule(schema, "case").args.direction = "upper"
                    THEN ToUpperCase(v1) ELSE ToLowerCase(v1))
              ELSE v1
        v3 == IF HasRule(schema, "trim") /\ GetRule(schema, "trim").args.enabled
              THEN Trim(v2) ELSE v2
        v4 == IF schema.terms.replacements /= Null
              THEN ApplyReplacements(v3, schema.terms.replacements.items) ELSE v3
    IN  IF cut.errors /= <<>> THEN cut
        ELSE [value |-> Str(HexPad(schema, v4)), errors |-> <<>>]

\* the coerce hook without the case conversion
StringCoerceNoCase(schema, value, state, prefs) ==
    LET v1 == value.s
        v3 == IF HasRule(schema, "trim") /\ GetRule(schema, "trim").args.enabled
              THEN Trim(v1) ELSE v1
        v4 == IF schema.terms.replacements /= Null
              THEN ApplyReplacements(v3, schema.terms.replacements.items) ELSE v3
        v5 == HexPad(schema, v4)
    IN  IF Flag(schema, "truncate") = <<TRUE>> /\ HasRule(schema, "max")
        THEN Truncate(GetRule(schema, "max"), Str(v5), state, prefs)
        ELSE [value |-> Str(v5), errors |-> <<>>]

\* coerce.method up to the replacements: case and trim
BeforeReplacements(schema, chars) ==
    LET v2 == IF HasRule(schema, "case")
              THEN (IF GetRule(schema, "case").args.direction = "upper"
                    THEN ToUpperCase(chars) ELSE ToLowerCase(chars))
              ELSE chars
    IN  IF HasRule(schema, "trim") /\ GetRule(schema, "trim").args.enabled
        THEN Trim(v2) ELSE v2

\* the schema after coerce.method: the patterns of its replacements are the
\* objects value.replace was called with
StringCoerceWrites(schema, value) ==
    IF schema.terms.replacements = Null THEN schema
    ELSE [schema EXCEPT !.terms.replacements.items =
                ExecReplacements(BeforeReplacements(schema, value.s), @)]

\* coerce.method (from: 'string'): case, trim, replacements, hex padding, truncate
StringCoerce(schema, value, state, prefs) ==
    LET v1 == value.s
        v2 == IF HasRule(schema, "case")
              THEN (IF GetRule(schema, "case").args.direction = "upper"
                    THEN ToUpperCase(v1) ELSE ToLowerCase(v1))
              ELSE v1
        v3 == IF HasRule(schema, "trim") /\ GetRule(schema, "trim").args.enabled
              THEN Trim(v2) ELSE v2
        v4 == IF schema.terms.replacements /= Null
              THEN ApplyReplacements(v3, schema.terms.replacements.items) ELSE v3
        v5 == HexPad(schema, v4)
    IN  IF Flag(schema, "truncate") = <<TRUE>> /\ HasRule(schema, "max")
        THEN Truncate(GetRule(schema, "max"), Str(v5), state, prefs)
        ELSE [value |-> Str(v5), errors |-> <<>>]

\* validate: the base check of string
StringValidate(schema, value) ==
    IF value.t /= "string" THEN <<Error(<<"string", "base">>, <<>>)>>
    ELSE IF value.s = <<>> THEN <<Error(<<"string", "empty">>, <<>>)>>
    ELSE <<>>

\* Common.compare(length, limit, operator)
Compare(a, b, operator) ==
    IF operator = "=" THEN a = b
    ELSE IF operator = ">=" THEN a >= b
    ELSE IF operator = "<=" THEN a <= b
    ELSE FALSE

\* rules.length.validate accepting every length
LengthValidateAlways(value, args, rule) == <<>>

\* rules.length.validate, shared by length, min and max: the errors it reports
LengthValidate(value, args, rule) ==
    IF Compare(Len(value.s), args.limit.n, rule.operator) THEN <<>>
    ELSE <<Error(<<"string", rule.name>>, [limit |-> rule.args.limit])>>

\* options.invert of a pattern, undefined being falsy
Invert(options) == "invert" \in DOMAIN options /\ options.invert

\* rules.pattern.validate
PatternValidate(value, rule) ==
    IF Test(rule.args.regex, value.s) /= Invert(rule.args.options) THEN <<>>
    ELSE <<Error(rule.errorCode, [regex |-> rule.args.regex])>>

\* rules.case.validate
CaseValidate(value, rule) ==
    IF \/ rule.args.direction = "lower" /\ value.s = ToLowerCase(value.s)
       \/ rule.args.direction = "upper" /\ value.s = ToUpperCase(value.s)
    THEN <<>>
    ELSE <<Error(<<"string", IF rule.args.direction = "lower" THEN "lowercase" ELSE "uppercase">>,
               <<>>)>>

\* rules.trim.validate
TrimValidate(value, rule) ==
    IF ~rule.args.enabled \/ value.s = Trim(value.s) THEN <<>>
    ELSE <<Error(<<"string", "trim">>, <<>>)>>

\* rules.warning.validate: helpers.error(code, local)
WarningValidate(value, args) == <<Error(args.code.s, args.local)>>

\* internals.hexRegex.test(value), on the characters of the model
IsHex(chars) == chars /= <<>> /\ \A i \in 1..Len(chars) : chars[i] \in {"a", "A", "0"}

\* rules.hex.validate
HexValidate(value, rule) ==
    IF ~IsHex(value.s) THEN <<Error(<<"string", "hex">>, <<>>)>>
    ELSE IF rule.args.options.byteAligned /\ Len(value.s) % 2 /= 0
    THEN <<Error(<<"string", "hexAlign">>, <<>>)>>
    ELSE <<>>

\* the validate function of a string rule, by rule.method; args are the
\* arguments of the rule with every reference resolved
StringRuleValidate(value, args, rule) ==
    IF rule.method = "length" THEN LengthValidate(value, args, rule)
    ELSE IF rule.method = "pattern" THEN PatternValidate(value, rule)
    ELSE IF rule.method = "case" THEN CaseValidate(value, rule)
    ELSE IF rule.method = "trim" THEN TrimValidate(value, rule)
    ELSE IF rule.method = "hex" THEN HexValidate(value, rule)
    ELSE <<>>

\* internals.length
StringLength(schema, name, limit, operator) ==
    AddRule(schema, Rule(name, "length", [limit |-> limit], operator, <<>>))

\* rules.min.method, rules.max.method, rules.length.method
StringMin(schema, limit) == StringLength(schema, "min", limit, ">=")
StringMax(schema, limit) == StringLength(schema, "max", limit, "<=")

\* rules.pattern.method without the assertion on the flags of the regex
StringPatternAnyFlags(schema, regex, options) ==
    IF DOMAIN options \ {"invert", "name"} /= {}
    THEN Thrown("Options contain unknown keys")
    ELSE AddRule(schema,
                 Rule("pattern", "pattern", [regex |-> regex, options |-> options], "",
                      IF Invert(options) THEN <<"string", "pattern", "invert", "base">>
                      ELSE <<"string", "pattern", "base">>))

\* rules.pattern.method
StringPattern(schema, regex, options) ==
    IF "g" \in regex.flags \/ "y" \in regex.flags
    THEN Thrown("regex should not use global or sticky mode")
    ELSE IF DOMAIN options \ {"invert", "name"} /= {}
    THEN Thrown("Options contain unknown keys")
    ELSE AddRule(schema,
                 Rule("pattern", "pattern", [regex |-> regex, options |-> options], "",
                      IF Invert(options) THEN <<"string", "pattern", "invert", "base">>
                      ELSE <<"string", "pattern", "base">>))

\* rules.case.method
StringCase(schema, direction) ==
    IF direction \notin {"lower", "upper"} THEN Thrown("Invalid case")
    ELSE AddRule(schema, Rule("case", "case", [direction |-> direction], "", <<>>))

\* rules.trim.method
StringTrim(schema, enabled) ==
    AddRule(schema, Rule("trim", "trim", [enabled |-> enabled], "", <<>>))

\* any.warning(code, local) attaching the rule without warn: true
AnyWarningFatal(schema, code, local) ==
    IF code = Undefined \/ code.t /= "string" \/ code.s = <<>>
    THEN Thrown("Invalid warning code")
    ELSE AddRule(schema, Rule("warning", "warning", [code |-> code, local |-> local], "",
                              <<>>))

\* rules.warning.method of any, which every type inherits; the code is a
\* string, held as its segments
AnyWarning(schema, code, local) ==
    IF code = Undefined \/ code.t /= "string" \/ code.s = <<>>
    THEN Thrown("Invalid warning code")
    ELSE AddRule(schema, Assign(Rule("warning", "warning",
                                     [code |-> code, local |-> local], "", <<>>),
                                [warn |-> TRUE]))

\* rules.hex.method
StringHex(schema, options) ==
    LET given == Assign([byteAligned |-> FALSE], options)
    IN  IF DOMAIN options \ {"byteAligned"} /= {} THEN Thrown("Options contain unknown keys")
        ELSE IF given.byteAligned \notin BOOLEAN THEN Thrown("byteAligned must be boolean")
        ELSE AddRule(schema, Rule("hex", "hex", [options |-> given], "", <<>>))

\* rules.truncate.method
StringTruncate(schema, enabled) == SetFlag(schema, "truncate", enabled)

\* rules.replace.method: a string pattern becomes a global regular expression
StringReplace(schema, pattern, replacement) ==
    LET regex == IF pattern.t = "string" THEN RegExp(pattern.s[1], {"g"}) ELSE pattern
        obj == CloneSchema(schema)
        old == IF obj.terms.replacements = Null THEN <<>> ELSE obj.terms.replacements.items
    IN  [obj EXCEPT !.terms.replacements =
            Arr(Append(old, [pattern |-> regex, replacement |-> replacement]))]

-----------------------------------------------------------------------------
(* Reference manager of ref.js, and lib/compile.js as far as alternatives use it *)

IsSchema(x) == "rules" \in DOMAIN x
IsRef(x) == "depth" \in DOMAIN x

\* exports.toSibling, exports.toParent
ToSibling == 0
ToParent == 1

\* Manager.register pushing every entry of a schema and every value reference,
\* whatever the ancestor after the shift
RegisterUnfiltered(refs, source, target) ==
    IF source = Null THEN refs
    ELSE IF IsSchema(source)
    THEN refs \o [i \in 1..Len(source.refs) |->
                    [ancestor |-> source.refs[i].ancestor - target, root |-> source.refs[i].root]]
    ELSE IF IsRef(source) /\ source.type = "value"
    THEN Append(refs, [ancestor |-> source.ancestor - target, root |-> source.root])
    ELSE refs

\* Manager.register(source, target) on the refs array of the manager
Register(refs, source, target) ==
    IF source = Null THEN refs
    ELSE IF IsSchema(source)
    THEN LET kept == SelectSeq(source.refs, LAMBDA item : item.ancestor - target >= 0)
         IN  refs \o [i \in 1..Len(kept) |->
                        [ancestor |-> kept[i].ancestor - target, root |-> kept[i].root]]
    ELSE IF IsRef(source) /\ source.type = "value" /\ source.ancestor - target >= 0
    THEN Append(refs, [ancestor |-> source.ancestor - target, root |-> source.root])
    ELSE refs

AnySchema == NewSchema("any", <<>>)
NumberSchema == NewSchema("number", <<>>)
BooleanSchema == NewSchema("boolean", <<>>)

\* any.required()
Required(schema) == SetFlag(schema, "presence", "required")

\* any.valid(value)
Valid(schema, value) ==
    [SetFlag(schema, "only", TRUE) EXCEPT !.allow = Append(@, value),
                                          !.refs = Register(@, value, ToParent)]

\* schema.$_compile(config): a schema stays, a literal becomes Joi.valid(literal)
Compile(config) == IF IsSchema(config) THEN config ELSE Valid(AnySchema, config)

\* Compile.ref(id)
CompileRef(id) == IF IsRef(id) THEN id ELSE Create(id.s, <<>>)

-----------------------------------------------------------------------------
(* lib/types/alternatives.js: the builders *)

\* initialize: schema.$_terms.matches = []
AlternativesSchema == NewSchema("alternatives", [matches |-> <<>>])

\* match[key], null when the item has no such key
ItemGet(item, key) == IF key \in DOMAIN item THEN item[key] ELSE Null

\* the inner loops of rebuild for one match
RebuildMatch(schema, match) ==
    LET r1 == Register(schema.refs, ItemGet(match, "schema"), ToSibling)
        r2 == Register(r1, ItemGet(match, "ref"), ToSibling)
        r3 == Register(r2, ItemGet(match, "peek"), ToSibling)
        r4 == Register(r3, ItemGet(match, "is"), ToSibling)
        r5 == Register(r4, ItemGet(match, "then"), ToSibling)
        r6 == Register(r5, ItemGet(match, "otherwise"), ToSibling)
        registered == [schema EXCEPT !.refs = r6]
    IN  IF \E key \in {"schema", "then", "otherwise"} :
                ItemGet(match, key) /= Null /\ ItemGet(match, key).type = "array"
        THEN [registered EXCEPT !.flags = Assign(@, ("_arrayItems" :> TRUE))]
        ELSE registered

\* rebuild
RECURSIVE RebuildMatches(_, _)
RebuildMatches(schema, matches) ==
    IF matches = <<>> THEN schema
    ELSE RebuildMatches(RebuildMatch(schema, Head(matches)), Tail(matches))

Rebuild(schema) == RebuildMatches(schema, schema.terms.matches)

\* schema.$_mutateRebuild(): the references are registered afresh
MutateRebuild(schema) == Rebuild([schema EXCEPT !.refs = <<>>])

\* rules.try.method without the assert of _endedSwitch
TryUnreachable(schema, schemas) ==
    LET list == IF IsSchema(schemas) THEN <<schemas>> ELSE schemas.items
        obj == CloneSchema(schema)
    IN  IF schemas = Undefined THEN Thrown("Missing alternative schemas")
        ELSE MutateRebuild(
                [obj EXCEPT !.terms.matches =
                    @ \o [i \in 1..Len(list) |-> [schema |-> Compile(list[i])]]])

\* rules.try.method; schemas is an array or one schema
Try(schema, schemas) ==
    LET list == IF IsSchema(schemas) THEN <<schemas>> ELSE schemas.items
        obj == CloneSchema(schema)
    IN  IF schemas = Undefined THEN Thrown("Missing alternative schemas")
        ELSE IF Flag(schema, "_endedSwitch") = <<TRUE>> THEN Thrown("Unreachable condition")
        ELSE MutateRebuild(
                [obj EXCEPT !.terms.matches =
                    @ \o [i \in 1..Len(list) |-> [schema |-> Compile(list[i])]]])

\* settings[key] !== undefined
Has(settings, key) == key \in DOMAIN settings

\* the part of a record a setting contributes, nothing when it is undefined
Part(settings, key, item) == IF Has(settings, key) THEN item ELSE <<>>

\* normalize in when: the item of one condition
Normalize(match, settings) ==
    Assign(Assign(Assign(
        [ref |-> IF ~IsSchema(match) THEN CompileRef(match) ELSE Null,
         peek |-> IF IsSchema(match) THEN match ELSE Null],
        Part(settings, "then", [then |-> Compile(settings.then)])),
        Part(settings, "otherwise", [otherwise |-> Compile(settings.otherwise)])),
        Part(settings, "is", [is |-> IF IsRef(settings.is) \/ IsSchema(settings.is)
                                    THEN Compile(settings.is)
                                    ELSE Required(Compile(settings.is))]))

\* the items a when() call pushes: one for a single case, one per switch entry,
\* the last entry taking the otherwise given outside the switch
WhenItems(condition, options) ==
    IF ~Has(options, "switch") THEN <<Normalize(condition, options)>>
    ELSE LET n == Len(options.switch)
         IN  [i \in 1..n |->
                IF i /= n THEN Normalize(condition, options.switch[i])
                ELSE Normalize(condition,
                        LET test == options.switch[i]
                            base == [is |-> test.is, then |-> test.then]
                        IN  IF Has(options, "otherwise")
                            THEN Assign(base, [otherwise |-> options.otherwise])
                            ELSE IF Has(test, "otherwise")
                            THEN Assign(base, [otherwise |-> test.otherwise])
                            ELSE base)]

\* obj.$_terms.matches.push(item) for the items of a when() call; normalize has
\* set _endedSwitch when an item has both then and otherwise
PushMatches(obj, items) ==
    [obj EXCEPT !.terms.matches = @ \o items,
                !.flags = IF \E i \in 1..Len(items) :
                                Has(items[i], "then") /\ Has(items[i], "otherwise")
                           THEN Assign(@, ("_endedSwitch" :> TRUE))
                           ELSE @]

\* overrides.when
When(schema, condition, options) ==
    IF DOMAIN options \ {"is", "then", "otherwise", "switch"} /= {}
    THEN Thrown("Options contain unknown keys: unknown")
    ELSE IF Flag(schema, "_endedSwitch") = <<TRUE>> THEN Thrown("Unreachable condition")
    ELSE IF Has(options, "switch") /\ Has(options, "is")
    THEN Thrown("Cannot combine switch with is")
    ELSE IF Has(options, "switch") /\ Has(options, "then")
    THEN Thrown("Cannot combine switch with then")
    ELSE IF ~Has(options, "switch") /\ ~Has(options, "then") /\ ~Has(options, "otherwise")
    THEN Thrown("options must have at least one of then, otherwise, or switch")
    ELSE IF IsSchema(condition) /\ Has(options, "is")
    THEN Thrown("is can not be used with a schema condition")
    ELSE IF IsSchema(condition) /\ Has(options, "switch")
    THEN Thrown("switch can not be used with a schema condition")
    ELSE IF ~IsSchema(condition) /\ ~Has(options, "is") /\ ~Has(options, "switch")
    THEN Thrown("Missing is or switch option")
    ELSE IF Has(options, "switch")
            /\ \E i \in 1..Len(options.switch) : ~Has(options.switch[i], "is")
    THEN Thrown("Switch statement missing is")
    ELSE IF Has(options, "switch")
            /\ \E i \in 1..Len(options.switch) : ~Has(options.switch[i], "then")
    THEN Thrown("Switch statement missing then")
    ELSE IF Has(options, "switch")
            /\ \E i \in 1..(Len(options.switch) - 1) : Has(options.switch[i], "otherwise")
    THEN Thrown("Options contain unknown keys: otherwise")
    ELSE IF Has(options, "switch") /\ Has(options, "otherwise")
            /\ Has(options.switch[Len(options.switch)], "otherwise")
    THEN Thrown("Cannot specify otherwise inside and outside a switch")
    ELSE MutateRebuild(PushMatches(CloneSchema(schema), WhenItems(condition, options)))

-----------------------------------------------------------------------------
(* The object type: keys, renames, and the order of the keys *)

\* Joi.object()
ObjectSchema == NewSchema("object", [keys |-> <<>>, renames |-> <<>>])

\* Manager.roots(): the roots of the references to siblings of the node
Roots(refs) == {refs[i].root : i \in {j \in 1..Len(refs) : refs[j].ancestor = 0}}

\* the keys sorted for the validation: a key comes after the keys that are
\* roots of the references of its schema; the first key that waits for no other
\* is taken each time, and keys that wait for each other cannot be sorted
RECURSIVE Sort(_, _)
Sort(pending, placed) ==
    IF pending = <<>> THEN [nodes |-> placed]
    ELSE LET waiting == {pending[i].key : i \in 1..Len(pending)}
             ready == {i \in 1..Len(pending) : Roots(pending[i].schema.refs) \cap waiting = {}}
             next == CHOOSE i \in ready : \A j \in ready : i <= j
         IN  IF ready = {} THEN Thrown("item added into group created a dependencies error")
             ELSE Sort(SubSeq(pending, 1, next - 1) \o SubSeq(pending, next + 1, Len(pending)),
                       Append(placed, pending[next]))

\* rebuild of object: the references of the children are registered as those
\* of descendants and the keys are sorted
RECURSIVE RegisterKeys(_, _)
RegisterKeys(refs, children) ==
    IF children = <<>> THEN refs
    ELSE RegisterKeys(Register(refs, Head(children).schema, ToParent), Tail(children))

ObjectRebuild(schema) ==
    LET sorted == Sort(schema.terms.keys, <<>>)
    IN  IF IsThrown(sorted) THEN sorted
        ELSE [schema EXCEPT !.terms.keys = sorted.nodes,
                            !.refs = RegisterKeys(<<>>, schema.terms.keys)]

\* object.keys(schema): the children take the place of the children of the
\* same keys and are added to the others
ObjectKeys(schema, children) ==
    LET added == {children[i].key : i \in 1..Len(children)}
    IN  ObjectRebuild([CloneSchema(schema) EXCEPT
            !.terms.keys = SelectSeq(@, LAMBDA child : child.key \notin added) \o children])

\* object.rename(from, to)
ObjectRename(schema, from, to) ==
    [CloneSchema(schema) EXCEPT !.terms.renames = Append(@, [from |-> from, to |-> to])]

\* any.strip()
Strip(schema) == SetFlag(schema, "result", "strip")

-----------------------------------------------------------------------------
(* The validation of one schema node: schema.$_validate(value, state, prefs) *)

\* what $_validate returns, with the steps it took and the value each step was given
Result(value, errors, trace) ==
    [value |-> value, errors |-> errors, trace |-> trace, warnings |-> <<>>]

Step(name, value) == [step |-> name, value |-> value]

\* typeof value === coerce.from, for the types with a coerce hook
CoerceFrom(schema, value) == schema.type = "string" /\ value.t = "string"

\* the end of alternatives.validate giving the errors collected as they are
AlternativesFailureCollected(value, errors) ==
    IF errors = <<>> THEN [value |-> value, errors |-> <<Error(<<"alternatives", "base">>, <<>>)>>]
    ELSE [value |-> value, errors |-> errors]

\* the end of alternatives.validate, when no match gave a result
AlternativesFailure(value, errors) ==
    IF errors = <<>> THEN [value |-> value, errors |-> <<Error(<<"alternatives", "base">>, <<>>)>>]
    ELSE IF Len(errors) = 1 THEN [value |-> value, errors |-> errors]
    ELSE IF \E i \in 1..Len(errors) : errors[i].code[2] /= "base"
    THEN [value |-> value,
          errors |-> <<Error(<<"alternatives", "match">>,
                             [details |-> [i \in 1..Len(errors) |-> errors[i].code]])>>]
    ELSE [value |-> value,
          errors |-> <<Error(<<"alternatives", "types">>,
                             [types |-> [i \in 1..Len(errors) |-> errors[i].code[1]]])>>]

\* the steps the base validate hook adds to the trace: the visit of the keys of
\* an object
Visits(base) == IF Has(base, "results") THEN base.results ELSE <<>>

\* schema._valids.has(value, state, prefs): a reference among the allowed
\* values stands for the value it resolves to
Allows(schema, value, state, prefs) ==
    \E i \in 1..Len(schema.allow) :
        IF IsRef(schema.allow[i])
        THEN Resolve(schema.allow[i], value, state, prefs, Undefined, NoOptions) = value
        ELSE schema.allow[i] = value

RECURSIVE Validate(_, _, _, _)
RECURSIVE AlternativesValidate(_, _, _, _, _)
RECURSIVE RunRules(_, _, _, _, _, _, _, _)

\* alternatives.validate going on after a try() schema that matched, a later
\* schema that matches too giving the result
RECURSIVE AlternativesValidateOn(_, _, _, _, _)
AlternativesValidateOn(matches, errors, value, state, prefs) ==
    IF matches = <<>> THEN AlternativesFailure(value, errors)
    ELSE LET item == Head(matches)
         IN  IF Has(item, "schema")
             THEN LET result == Validate(item.schema, value, state, prefs)
                      later == AlternativesValidateOn(Tail(matches), errors, value, state,
                                                      prefs)
                  IN  IF IsThrown(result) THEN result
                      ELSE IF result.errors = <<>>
                      THEN (IF ~IsThrown(later) /\ later.errors = <<>> THEN later ELSE result)
                      ELSE AlternativesValidateOn(Tail(matches), errors \o result.errors,
                                                  value, state, prefs)
             ELSE LET is == IF item.peek /= Null THEN item.peek ELSE item.is
                      input == IF Has(item, "is")
                               THEN Resolve(item.ref, value, state, prefs, Undefined, NoOptions)
                               ELSE value
                      match == Validate(is, input, state, prefs)
                  IN  IF IsThrown(input) THEN input
                      ELSE IF IsThrown(match) THEN match
                      ELSE IF match.errors /= <<>>
                      THEN (IF Has(item, "otherwise")
                            THEN Validate(item.otherwise, value, state, prefs)
                            ELSE AlternativesValidateOn(Tail(matches), errors, value, state,
                                                        prefs))
                      ELSE IF Has(item, "then")
                      THEN Validate(item.then, value, state, prefs)
                      ELSE AlternativesValidateOn(Tail(matches), errors, value, state, prefs)

\* alternatives.validate with the errors collected so far kept in front of the
\* errors of then and otherwise
RECURSIVE AlternativesValidateKeep(_, _, _, _, _)
AlternativesValidateKeep(matches, errors, value, state, prefs) ==
    IF matches = <<>> THEN AlternativesFailure(value, errors)
    ELSE LET item == Head(matches)
         IN  IF Has(item, "schema")
             THEN LET result == Validate(item.schema, value, state, prefs)
                  IN  IF IsThrown(result) \/ result.errors = <<>> THEN result
                      ELSE AlternativesValidateKeep(Tail(matches), errors \o result.errors,
                                                    value, state, prefs)
             ELSE LET is == IF item.peek /= Null THEN item.peek ELSE item.is
                      input == IF Has(item, "is")
                               THEN Resolve(item.ref, value, state, prefs, Undefined, NoOptions)
                               ELSE value
                      match == Validate(is, input, state, prefs)
                      chosen == IF match.errors /= <<>> THEN item.otherwise ELSE item.then
                      result == Validate(chosen, value, state, prefs)
                  IN  IF IsThrown(input) THEN input
                      ELSE IF IsThrown(match) THEN match
                      ELSE IF Has(item, IF match.errors /= <<>> THEN "otherwise" ELSE "then")
                      THEN (IF IsThrown(result) \/ result.errors = <<>> THEN result
                            ELSE [result EXCEPT !.errors = errors \o @])
                      ELSE AlternativesValidateKeep(Tail(matches), errors, value, state, prefs)

\* alternatives.validate: the loop over schema.$_terms.matches from the given
\* match on, errors being the errors of the matches tried before
AlternativesValidate(matches, errors, value, state, prefs) ==
    IF matches = <<>> THEN AlternativesFailure(value, errors)
    ELSE LET item == Head(matches)
         IN  IF Has(item, "schema")
             THEN LET result == Validate(item.schema, value, state, prefs)
                  IN  IF IsThrown(result) \/ result.errors = <<>> THEN result
                      ELSE AlternativesValidate(Tail(matches), errors \o result.errors,
                                                value, state, prefs)
             ELSE LET is == IF item.peek /= Null THEN item.peek ELSE item.is
                      input == IF Has(item, "is")
                               THEN Resolve(item.ref, value, state, prefs, Undefined, NoOptions)
                               ELSE value
                      match == Validate(is, input, state, prefs)
                  IN  IF IsThrown(input) THEN input
                      ELSE IF IsThrown(match) THEN match
                      ELSE IF match.errors /= <<>>
                      THEN (IF Has(item, "otherwise")
                            THEN Validate(item.otherwise, value, state, prefs)
                            ELSE AlternativesValidate(Tail(matches), errors, value, state,
                                                      prefs))
                      ELSE IF Has(item, "then")
                      THEN Validate(item.then, value, state, prefs)
                      ELSE AlternativesValidate(Tail(matches), errors, value, state, prefs)

\* an object without a key, and with a key set
Without(object, key) ==
    [object EXCEPT !.props = [k \in DOMAIN object.props \ {key} |-> object.props[k]]]
With(object, key, value) == [object EXCEPT !.props = Assign(@, (key :> value))]

\* the object the validation works on, the caller's object itself
CloneObjectShared(value) == [object |-> value, shared |-> TRUE]

\* internals.clone(value, prefs): the validation works on a copy of the
\* caller's object, which shares nothing with it but the values of its keys
CloneObject(value) == [object |-> value, shared |-> FALSE]

\* internals.rename: the renames in the order they were declared, on the
\* working object
RECURSIVE Rename(_, _, _, _)
Rename(renames, work, renamed, errors) ==
    IF renames = <<>> THEN [value |-> work, errors |-> errors]
    ELSE LET rename == Head(renames)
         IN  IF rename.from \notin DOMAIN work.props
             THEN Rename(Tail(renames), work, renamed, errors)
             ELSE IF rename.to \in renamed
             THEN Rename(Tail(renames), work, renamed,
                         Append(errors, Error(<<"object", "rename", "multiple">>,
                                              [from |-> rename.from, to |-> rename.to])))
             ELSE IF rename.to \in DOMAIN work.props
             THEN Rename(Tail(renames), work, renamed,
                         Append(errors, Error(<<"object", "rename", "override">>,
                                              [from |-> rename.from, to |-> rename.to])))
             ELSE Rename(Tail(renames),
                         Without(With(work, rename.to, work.props[rename.from]), rename.from),
                         renamed \cup {rename.to}, errors)

\* the state of the validation of a child: the working object is its parent,
\* and the mainstay, with the shadow of the values stripped, is the one of the call
Nest(state, work, shadow) ==
    [ancestors |-> <<work>> \o state.ancestors, mainstay |-> [shadow |-> shadow]]

\* the loop over the keys of the object, in the order the schema holds them: a
\* child is validated against the working object as the children before it left
\* it; its value takes the place of the value of the key, or the key is deleted
\* when the child is stripped, its value then going to the shadow, which holds
\* the keys of the object given to validate
RECURSIVE ValidateKeys(_, _, _, _, _, _, _)
ValidateKeys(children, work, shadow, state, prefs, errors, results) ==
    IF children = <<>> THEN [value |-> work, errors |-> errors, results |-> results]
    ELSE LET child == Head(children)
             item == IF child.key \in DOMAIN work.props THEN work.props[child.key]
                     ELSE Undefined
             result == Validate(child.schema, item, Nest(state, work, shadow), prefs)
             seen == Append(results, [key |-> child.key, item |-> item, result |-> result])
         IN  IF IsThrown(result) THEN result
             ELSE IF result.errors /= <<>>
             THEN (IF prefs.abortEarly
                   THEN [value |-> work, errors |-> result.errors, results |-> seen]
                   ELSE ValidateKeys(Tail(children), work, shadow, state, prefs,
                                     errors \o result.errors, seen))
             ELSE IF Flag(child.schema, "result") = <<"strip">>
             THEN ValidateKeys(Tail(children), Without(work, child.key),
                               IF state.ancestors /= <<>> THEN shadow
                               ELSE IF shadow = Null THEN Obj((child.key :> result.value))
                               ELSE With(shadow, child.key, result.value),
                               state, prefs, errors, seen)
             ELSE IF result.value = Undefined
             THEN ValidateKeys(Tail(children), Without(work, child.key), shadow, state, prefs,
                               errors, seen)
             ELSE ValidateKeys(Tail(children), With(work, child.key, result.value), shadow,
                               state, prefs, errors, seen)

\* the caller's object after the validation worked on the clone: the working
\* object when the clone is the caller's object itself, else the object as it was
InputAfter(value, clone, work) == IF clone.shared THEN work ELSE value

\* the step of the trace for the loop over the keys: the caller's object after
\* it, and the children visited with the value and the result of each
VisitKeys(value, clone, looped) ==
    [looped EXCEPT !.results =
        <<[step |-> "keys", value |-> InputAfter(value, clone, looped.value),
           children |-> looped.results]>>]

\* the base validate hook of object: the value is cloned, its keys are renamed
\* and the children are validated
ObjectValidate(schema, value, state, prefs) ==
    IF value.t /= "object"
    THEN [value |-> value, errors |-> <<Error(<<"object", "base">>, <<>>)>>, results |-> <<>>]
    ELSE LET clone == CloneObject(value)
             renamed == Rename(schema.terms.renames, clone.object, {}, <<>>)
         IN  IF renamed.errors /= <<>> /\ prefs.abortEarly
             THEN VisitKeys(value, clone, [value |-> renamed.value, errors |-> renamed.errors,
                                      results |-> <<>>])
             ELSE LET looped == ValidateKeys(schema.terms.keys, renamed.value,
                                             state.mainstay.shadow, state, prefs,
                                             renamed.errors, <<>>)
                  IN  IF IsThrown(looped) THEN looped ELSE VisitKeys(value, clone, looped)

\* the coerce hook of the type
Coerce(schema, value, state, prefs) ==
    IF schema.type = "string" THEN StringCoerce(schema, value, state, prefs)
    ELSE [value |-> value, errors |-> <<>>]

\* the base validate hook of the type
BaseValidate(schema, value, state, prefs) ==
    IF schema.type = "string"
    THEN [value |-> value, errors |-> StringValidate(schema, value)]
    ELSE IF schema.type = "alternatives"
    THEN AlternativesValidate(schema.terms.matches, <<>>, value, state, prefs)
    ELSE IF schema.type = "object"
    THEN ObjectValidate(schema, value, state, prefs)
    ELSE IF schema.type = "number" /\ value.t /= "number"
    THEN [value |-> value, errors |-> <<Error(<<"number", "base">>, <<>>)>>]
    ELSE IF schema.type = "boolean" /\ value.t /= "boolean"
    THEN [value |-> value, errors |-> <<Error(<<"boolean", "base">>, <<>>)>>]
    ELSE [value |-> value, errors |-> <<>>]

\* the arguments of a rule with every reference among them resolved
ResolveArgs(rule, value, state, prefs) ==
    IF rule.method = "length" /\ IsResolvable(rule.args.limit)
    THEN [rule.args EXCEPT !.limit = Resolve(@, value, state, prefs, Undefined, NoOptions)]
    ELSE rule.args

\* the error of a rule whose resolved argument fails the assert of the argument
InvalidArgs(rule, args) ==
    IF rule.method = "length" /\ IsResolvable(rule.args.limit) /\ ~Limit(args.limit)
    THEN <<Error(<<"any", "ref">>,
                 [arg |-> "limit", ref |-> rule.args.limit,
                  reason |-> "must be a positive integer"])>>
    ELSE <<>>

\* one rule of the ruleset: its validate function is called with the resolved
\* arguments unless one of them is invalid
RunRule(rule, args, value) ==
    IF InvalidArgs(rule, args) /= <<>>
    THEN [errors |-> InvalidArgs(rule, args), steps |-> <<>>]
    ELSE IF rule.method = "warning"
    THEN [errors |-> WarningValidate(value, args), steps |-> <<Step(rule.name, value)>>]
    ELSE [errors |-> StringRuleValidate(value, args, rule), steps |-> <<Step(rule.name, value)>>]

\* rule.warn
Warns(rule) == Has(rule, "warn") /\ rule.warn

\* the rules of the ruleset from the i-th on, in the order they were attached;
\* warnings is state.mainstay.warnings, which the errors of a rule with warn
\* are pushed onto before the loop goes on
RunRules(schema, i, value, state, prefs, errors, trace, warnings) ==
    IF i > Len(schema.rules)
    THEN [Result(value, errors, trace) EXCEPT !.warnings = warnings]
    ELSE LET rule == schema.rules[i]
         IN  IF RuleConvert(rule.method) /\ prefs.convert
             THEN RunRules(schema, i + 1, value, state, prefs, errors, trace, warnings)
             ELSE LET ran == RunRule(rule, ResolveArgs(rule, value, state, prefs), value)
                      failed == ran.errors
                      seen == trace \o ran.steps
                  IN  IF failed /= <<>> /\ Warns(rule)
                      THEN RunRules(schema, i + 1, value, state, prefs, errors, seen,
                                    warnings \o failed)
                      ELSE IF failed /= <<>> /\ prefs.abortEarly
                      THEN [Result(value, failed, seen) EXCEPT !.warnings = warnings]
                      ELSE RunRules(schema, i + 1, value, state, prefs, errors \o failed,
                                    seen, warnings)

\* a call of schema.$_validate(value, state, prefs) before its first step, with
\* a state and a mainstay of its own
Entered(value, state, prefs) ==
    [value |-> value, state |-> state, prefs |-> prefs, pc |-> "enter",
     current |-> value, trace |-> <<>>, result |-> Null]

Finish(call, result) == [call EXCEPT !.pc = "done", !.result = result]

\* one step of a call on the node as it is now: the checks of presence and of
\* the allowed values, then the coerce hook, then the base validate hook, then
\* the rules of the ruleset
RECURSIVE StepOf(_, _)
StepOf(node, call) ==
    IF call.pc = "enter"
    THEN (IF call.value = Undefined
          THEN (IF Flag(node, "presence") = <<"required">>
                THEN Finish(call, Result(call.value,
                                         <<Error(<<"any", "required">>, <<>>)>>, <<>>))
                ELSE Finish(call, Result(call.value, <<>>, <<>>)))
          ELSE IF Allows(node, call.value, call.state, call.prefs)
          THEN Finish(call, Result(call.value, <<>>, <<>>))
          ELSE IF Flag(node, "only") = <<TRUE>>
          THEN Finish(call, Result(call.value,
                                   <<Error(<<"any", "only">>, [valids |-> node.allow])>>,
                                   <<>>))
          ELSE [call EXCEPT !.pc = "coerce"])
    ELSE IF call.pc = "coerce"
    THEN LET converts == call.prefs.convert /\ CoerceFrom(node, call.value)
             coerced == IF converts THEN Coerce(node, call.value, call.state, call.prefs)
                        ELSE [value |-> call.value, errors |-> <<>>]
             t1 == IF converts THEN <<Step("coerce", call.value)>> ELSE <<>>
         IN  IF coerced.errors /= <<>>
             THEN Finish(call, Result(coerced.value, coerced.errors, t1))
             ELSE [call EXCEPT !.pc = "validate", !.current = coerced.value, !.trace = t1]
    ELSE IF call.pc = "validate"
    THEN LET base == BaseValidate(node, call.current, call.state, call.prefs)
             t2 == Append(call.trace, Step("validate", call.current)) \o Visits(base)
         IN  IF IsThrown(base) THEN Finish(call, base)
             ELSE IF base.errors /= <<>> THEN Finish(call, Result(base.value, base.errors, t2))
             ELSE [call EXCEPT !.pc = "rules", !.current = base.value, !.trace = t2]
    ELSE Finish(call, RunRules(node, 1, call.current, call.state, call.prefs, <<>>,
                               call.trace, <<>>))

\* the steps of a call from where it is to its end, on a node no step writes to
RECURSIVE Run(_, _)
Run(node, call) == IF call.pc = "done" THEN call.result ELSE Run(node, StepOf(node, call))

\* schema.$_validate(value, state, prefs): the steps of the call, in a row
Validate(schema, value, state, prefs) == Run(schema, Entered(value, state, prefs))

-----------------------------------------------------------------------------
(* The extension type 'fancy' of test/manifest.js *)

\* custom.fancy(): the base Joi.object({ a: Joi.number() }) after initialize
FancySchema ==
    NewSchema("fancy", [keys |-> <<[key |-> "a", schema |-> NumberSchema]>>,
                        fancy |-> <<>>])

\* rules.pants.method: pushes onto the terms of the receiver and returns the receiver
Pants(schema, button) == [schema EXCEPT !.terms.fancy = Append(@, button)]

\* build of the extension
FancyBuild(obj, desc) ==
    IF Has(desc, "fancy") THEN [CloneSchema(obj) EXCEPT !.terms.fancy = desc.fancy]
    ELSE obj

-----------------------------------------------------------------------------
(* schema.describe() and Joi.build(desc): lib/manifest.js and the build hooks *)

\* regex.toString() and the regular expression parsed back from it
RegExpToString(regex) ==
    <<"/", regex.source, "/">>
        \o (IF "g" \in regex.flags THEN <<"g">> ELSE <<>>)
        \o (IF "i" \in regex.flags THEN <<"i">> ELSE <<>>)

ParseRegExp(chars) == RegExp(chars[2], {chars[i] : i \in 4..Len(chars)})

\* the flags describe leaves out
PrivateFlags == {"_endedSwitch", "_arrayItems"}

\* the arguments of a rule as describe shows them
DescribeArgs(rule) ==
    IF rule.method = "pattern"
    THEN [regex |-> [regex |-> RegExpToString(rule.args.regex)], options |-> rule.args.options]
    ELSE IF rule.method = "length" /\ IsResolvable(rule.args.limit)
    THEN [limit |-> [ref |-> Describe(rule.args.limit)]]
    ELSE rule.args

RECURSIVE DescribeSchema(_)

\* one item of $_terms.matches
DescribeMatch(item) ==
    Assign([key \in {k \in {"schema", "peek", "is", "then", "otherwise"} :
                        ItemGet(item, k) /= Null} |-> DescribeSchema(item[key])],
           IF ItemGet(item, "ref") /= Null THEN [ref |-> [ref |-> Describe(item.ref)]]
           ELSE <<>>)

\* the part of the description a property of the schema contributes, nothing
\* when the property is empty
Shown(present, part) == IF present THEN part ELSE <<>>

DescribeSchema(schema) ==
    Assign(Assign(Assign(Assign(Assign(Assign(Assign(
        [type |-> schema.type],
        Shown(DOMAIN schema.flags \ PrivateFlags /= {},
              [flags |-> [f \in DOMAIN schema.flags \ PrivateFlags |-> schema.flags[f]]])),
        Shown(schema.allow /= <<>>, [allow |-> schema.allow])),
        Shown(schema.rules /= <<>>,
              [rules |-> [i \in 1..Len(schema.rules) |->
                            [name |-> schema.rules[i].name,
                             args |-> DescribeArgs(schema.rules[i])]]])),
        Shown(Has(schema.terms, "matches") /\ schema.terms.matches /= <<>>,
              [matches |-> [i \in 1..Len(schema.terms.matches) |->
                              DescribeMatch(schema.terms.matches[i])]])),
        Shown(Has(schema.terms, "replacements") /\ schema.terms.replacements /= Null,
              [replacements |->
                  [i \in 1..Len(schema.terms.replacements.items) |->
                      [pattern |-> [regex |-> RegExpToString(
                                      schema.terms.replacements.items[i].pattern)],
                       replacement |-> schema.terms.replacements.items[i].replacement]]])),
        Shown(Has(schema.terms, "keys"),
              [keys |-> [i \in 1..Len(schema.terms.keys) |->
                            [key |-> schema.terms.keys[i].key,
                             schema |-> DescribeSchema(schema.terms.keys[i].schema)]]])),
        Shown(Has(schema.terms, "fancy") /\ schema.terms.fancy /= <<>>,
              [fancy |-> schema.terms.fancy]))

\* string build
RECURSIVE StringBuild(_, _)
StringBuild(obj, replacements) ==
    IF replacements = <<>> THEN obj
    ELSE StringBuild(StringReplace(obj, Head(replacements).pattern,
                                   Head(replacements).replacement),
                     Tail(replacements))

\* the options alternatives build hands to when: { is, then, otherwise }
WhenOptions(match) ==
    [key \in {"is", "then", "otherwise"} \cap DOMAIN match |-> match[key]]

\* alternatives build dropping the otherwise of a condition
RECURSIVE AlternativesBuildNoOtherwise(_, _)
AlternativesBuildNoOtherwise(obj, matches) ==
    IF matches = <<>> \/ IsThrown(obj) THEN obj
    ELSE LET match == Head(matches)
         IN  AlternativesBuildNoOtherwise(
                IF Has(match, "schema") THEN Try(obj, match.schema)
                ELSE When(obj, IF Has(match, "ref") THEN match.ref ELSE match.peek,
                          [key \in {"is", "then"} \cap DOMAIN match |-> match[key]]),
                Tail(matches))

\* alternatives build
RECURSIVE AlternativesBuild(_, _)
AlternativesBuild(obj, matches) ==
    IF matches = <<>> \/ IsThrown(obj) THEN obj
    ELSE LET match == Head(matches)
         IN  AlternativesBuild(
                IF Has(match, "schema") THEN Try(obj, match.schema)
                ELSE When(obj, IF Has(match, "ref") THEN match.ref ELSE match.peek,
                          WhenOptions(match)),
                Tail(matches))

\* a described argument built: { ref } becomes the reference
BuildArg(desc) == IF "ref" \in DOMAIN desc THEN Build(desc.ref) ELSE desc

\* the builder call build makes for one described rule: schema[name](...args)
BuildRule(schema, rule) ==
    IF rule.name = "min" THEN StringMin(schema, BuildArg(rule.args.limit))
    ELSE IF rule.name = "max" THEN StringMax(schema, BuildArg(rule.args.limit))
    ELSE IF rule.name = "pattern"
    THEN StringPattern(schema, ParseRegExp(rule.args.regex.regex), rule.args.options)
    ELSE IF rule.name = "case" THEN StringCase(schema, rule.args.direction)
    ELSE IF rule.name = "trim" THEN StringTrim(schema, rule.args.enabled)
    ELSE IF rule.name = "hex" THEN StringHex(schema, rule.args.options)
    ELSE IF rule.name = "warning" THEN AnyWarning(schema, rule.args.code, rule.args.local)
    ELSE schema

RECURSIVE BuildRules(_, _)
BuildRules(schema, rules) ==
    IF rules = <<>> \/ IsThrown(schema) THEN schema
    ELSE BuildRules(BuildRule(schema, Head(rules)), Tail(rules))

\* the schema of a type before any builder call
TypeSchema(type) ==
    IF type = "string" THEN StringSchema
    ELSE IF type = "alternatives" THEN AlternativesSchema
    ELSE IF type = "number" THEN NumberSchema
    ELSE IF type = "boolean" THEN BooleanSchema
    ELSE IF type = "fancy" THEN FancySchema
    ELSE IF type = "object" THEN ObjectSchema
    ELSE AnySchema

RECURSIVE BuildSchema(_)

\* one described item of matches with its schemas and its reference built
BuildMatch(desc) ==
    Assign([key \in DOMAIN desc \ {"ref"} |-> BuildSchema(desc[key])],
           IF Has(desc, "ref") THEN [ref |-> Build(desc.ref.ref)] ELSE <<>>)

\* the build hook of the type, for a description with terms of the type
BuildTerms(obj, desc) ==
    IF IsThrown(obj) THEN obj
    ELSE IF desc.type = "string" /\ Has(desc, "replacements")
    THEN StringBuild(obj, [i \in 1..Len(desc.replacements) |->
                            [pattern |-> ParseRegExp(desc.replacements[i].pattern.regex),
                             replacement |-> desc.replacements[i].replacement]])
    ELSE IF desc.type = "alternatives" /\ Has(desc, "matches")
    THEN AlternativesBuild(obj, [i \in 1..Len(desc.matches) |-> BuildMatch(desc.matches[i])])
    ELSE IF desc.type = "fancy" THEN FancyBuild(obj, desc)
    ELSE obj

\* Joi.build(desc): the flags, the allowed values, the rules, then the terms
BuildSchema(desc) ==
    BuildTerms(
        BuildRules([TypeSchema(desc.type) EXCEPT
                        !.flags = IF Has(desc, "flags") THEN desc.flags ELSE @,
                        !.allow = IF Has(desc, "allow") THEN desc.allow ELSE @],
                   IF Has(desc, "rules") THEN desc.rules ELSE <<>>),
        desc)

-----------------------------------------------------------------------------
(* Building schemas by chained builder calls, and validating the result *)

\* the limits, patterns and replacements handed to the string builders
Limits == {Num(2), Num(3), Num(-1)}
LimitRef == Create(<<"$", "x">>, <<>>)
MaxLimits == {Num(1), LimitRef}
Patterns == {RegExp("a", {}), RegExp("A", {}), RegExp("a", {"g"})}
Replaced == {Str(<<"a">>)}

\* the arguments of the pattern() calls: the patterns, and one with an option
\* pattern() does not know
PatternCalls ==
    {[regex |-> regex, options |-> <<>>] : regex \in Patterns}
        \cup {[regex |-> RegExp("a", {}), options |-> [unknown |-> TRUE]]}

\* the schemas handed to try() and to the options of when()
StringMin3 == StringMin(StringSchema, Num(3))
StringReplaceMin3 == StringMin(StringReplace(StringSchema, Str(<<"a">>), <<"A", "A">>), Num(3))
Tried == {NumberSchema, StringReplaceMin3, Arr(<<BooleanSchema, StringMin3>>), Undefined}

\* the conditions and options handed to when()
Conditions ==
    {[condition |-> Str(<<"$", "x">>),
      options |-> [is |-> Bool(TRUE), then |-> StringSchema, otherwise |-> NumberSchema]],
     [condition |-> Str(<<"a">>),
      options |-> [is |-> Bool(TRUE), otherwise |-> BooleanSchema]],
     [condition |-> StringSchema,
      options |-> [then |-> StringMin3]],
     [condition |-> Str(<<"a">>),
      options |-> [is |-> Bool(TRUE), then |-> NumberSchema, unknown |-> TRUE]],
     [condition |-> Str(<<"a">>),
      options |-> [switch |-> <<[is |-> Bool(FALSE), then |-> NumberSchema],
                                [is |-> Bool(TRUE), then |-> BooleanSchema]>>]],
     [condition |-> Str(<<"$", "x">>),
      options |-> [switch |-> <<[is |-> Bool(FALSE), then |-> NumberSchema],
                                [is |-> Bool(TRUE), then |-> StringMin3]>>,
                   otherwise |-> BooleanSchema]]}

\* the values validated
StringValues ==
    {Num(1), Str(<<>>), Str(<<"A">>), Str(<<"a", "A">>), Str(<<" ", "a", " ">>),
     Str(<<"a", "A", "a">>)}
AlternativesValues == {Num(5), Bool(TRUE), Str(<<"a", "A">>), Str(<<"a", "A", "a">>)}

\* prefs.context and state.ancestors of a validation: the context holds x, and the
\* value is the root or sits in an object with the key a
Envs ==
    {[context |-> Obj((<<"x">> :> Bool(TRUE))), ancestors |-> <<>>],
     [context |-> Obj(<<>>), ancestors |-> <<Obj((<<"a">> :> Bool(TRUE)))>>]}

ValuesOf(type) == IF type = "string" THEN StringValues ELSE AlternativesValues
StringEnvs ==
    {env \in Envs : env.ancestors = <<>>}
        \cup {[context |-> Obj((<<"x">> :> Num(2))), ancestors |-> <<>>]}
EnvsOf(type) == IF type = "string" THEN StringEnvs ELSE Envs

Last == chain[Len(chain)]

SchemaInit ==
    /\ refIn = [op |-> "none"] /\ ref = [t |-> "none"] /\ refOut = [op |-> "none"]
    /\ chain = <<>> /\ calls = <<>> /\ out = [op |-> "none"]
    /\ spaces = <<>> /\ sets = <<>> /\ ext = [op |-> "none"]

\* Joi.string(), Joi.alternatives(), custom.fancy()
New(type) ==
    /\ chain = <<>>
    /\ chain' = <<TypeSchema(type)>>
    /\ UNCHANGED <<refVars, calls, out, extVars>>

\* a builder call on the last schema: the schema it returns is the next of the
\* chain, and a call that throws ends the run
Builder(type, method, args, result) ==
    /\ chain /= <<>> /\ out.op = "none" /\ Len(calls) < MaxCalls
    /\ Last.type = type
    /\ IF IsThrown(result)
       THEN /\ out' = [op |-> "thrown", method |-> method, args |-> args,
                       message |-> result.thrown]
            /\ UNCHANGED <<chain, calls>>
       ELSE /\ calls' = Append(calls, [method |-> method, args |-> args, on |-> Len(chain)])
            /\ chain' = Append(chain, result)
            /\ UNCHANGED out
    /\ UNCHANGED <<refVars, extVars>>

CallMin(limit) == Builder("string", "min", [limit |-> limit], StringMin(Last, limit))
CallMax(limit) == Builder("string", "max", [limit |-> limit], StringMax(Last, limit))
CallPattern(regex, options) ==
    Builder("string", "pattern", [regex |-> regex, options |-> options],
            StringPattern(Last, regex, options))
CallLowercase == Builder("string", "case", [direction |-> "lower"], StringCase(Last, "lower"))
CallTrim == Builder("string", "trim", [enabled |-> TRUE], StringTrim(Last, TRUE))
CallTruncate == Builder("string", "truncate", [enabled |-> TRUE], StringTruncate(Last, TRUE))
CallReplace(pattern) ==
    Builder("string", "replace", [pattern |-> pattern, replacement |-> <<"A">>],
            StringReplace(Last, pattern, <<"A">>))
CallReplaceBy(pattern, replacement) ==
    Builder("string", "replace", [pattern |-> pattern, replacement |-> replacement],
            StringReplace(Last, pattern, replacement))
CallHex(options) == Builder("string", "hex", [options |-> options], StringHex(Last, options))
CallWarning(code, local) ==
    Builder("string", "warning", [code |-> code, local |-> local],
            AnyWarning(Last, code, local))
CallTry(tried) == Builder("alternatives", "try", [schemas |-> tried], Try(Last, tried))
CallWhen(c) ==
    Builder("alternatives", "when", c, When(Last, c.condition, c.options))

\* schema.pants(button) of the extension: the receiver itself comes back, changed
CallPants(button) ==
    /\ chain /= <<>> /\ out.op = "none" /\ Len(calls) < MaxCalls
    /\ Last.type = "fancy"
    /\ calls' = Append(calls, [method |-> "pants", args |-> [button |-> button],
                               on |-> Len(chain)])
    /\ chain' = [chain EXCEPT ![Len(chain)] = Pants(Last, button)]
    /\ UNCHANGED <<refVars, out, extVars>>

\* what a caller sees of a result: the value when accepted, the error codes when not
Outcome(result) ==
    IF IsThrown(result) THEN result
    ELSE IF result.errors = <<>> THEN [value |-> result.value]
    ELSE [codes |-> [i \in 1..Len(result.errors) |-> result.errors[i].code]]

\* schema.validate(value, prefs) of the last schema, and of built, the schema
\* Joi.build(schema.describe()) gives
ValidateLast(value, convert, abortEarly, env, built) ==
    /\ chain /= <<>> /\ out.op = "none"
    /\ Last.type \in {"string", "alternatives"}
    /\ LET state == [ancestors |-> env.ancestors, mainstay |-> [shadow |-> Null]]
           prefs == [convert |-> convert, abortEarly |-> abortEarly, context |-> env.context]
       IN  out' = [op |-> "validate", value |-> value, state |-> state, prefs |-> prefs,
                   result |-> Validate(Last, value, state, prefs),
                   rebuilt |-> IF IsThrown(built) THEN built
                               ELSE Outcome(Validate(built, value, state, prefs))]
    /\ UNCHANGED <<refVars, chain, calls, extVars>>

\* the builder calls of a string schema
StringBuilders ==
    \/ \E limit \in Limits : CallMin(limit)
    \/ \E limit \in MaxLimits : CallMax(limit)
    \/ \E p \in PatternCalls : CallPattern(p.regex, p.options)
    \/ CallLowercase
    \/ CallTrim
    \/ CallTruncate
    \/ \E pattern \in Replaced : CallReplace(pattern)

\* the builder calls of an alternatives schema
AlternativesBuilders ==
    \/ \E tried \in Tried : CallTry(tried)
    \/ \E c \in Conditions : CallWhen(c)

Validates ==
    LET built == BuildSchema(DescribeSchema(Last))
    IN  \E value \in ValuesOf(Last.type), convert \in BOOLEAN, abortEarly \in BOOLEAN,
           env \in EnvsOf(Last.type) :
                ValidateLast(value, convert, abortEarly, env, built)

StringNext ==
    \/ /\ chain = <<>>
       /\ New("string")
    \/ /\ chain /= <<>> /\ out.op = "none" /\ Len(calls) < MaxCalls
       /\ StringBuilders
    \/ /\ chain /= <<>> /\ out.op = "none"
       /\ Validates

AlternativesNext ==
    \/ /\ chain = <<>>
       /\ New("alternatives")
    \/ /\ chain /= <<>> /\ out.op = "none" /\ Len(calls) < MaxCalls
       /\ AlternativesBuilders
    \/ /\ chain /= <<>> /\ out.op = "none"
       /\ Validates

SchemaNext ==
    \/ /\ chain = <<>>
       /\ \E type \in {"string", "alternatives", "fancy"} : New(type)
    \/ /\ chain /= <<>> /\ out.op = "none" /\ Len(calls) < MaxCalls
       /\ \/ StringBuilders
          \/ AlternativesBuilders
          \/ \E button \in {"green", "red"} : CallPants(button)
    \/ /\ chain /= <<>> /\ out.op = "none"
       /\ Validates

\* the builder calls of a string schema that truncates: literal limits, and the
\* conversions that come before the truncation, two of them lengthening the value
TruncateBuilders ==
    \/ \E limit \in {Num(1), Num(2)} : CallMax(limit)
    \/ CallTruncate
    \/ CallTrim
    \/ CallLowercase
    \/ CallReplaceBy(Str(<<"a">>), <<"A", "A">>)
    \/ CallHex([byteAligned |-> TRUE])

TruncateNext ==
    \/ /\ chain = <<>>
       /\ New("string")
    \/ /\ chain /= <<>> /\ out.op = "none" /\ Len(calls) < MaxCalls
       /\ TruncateBuilders
    \/ /\ chain /= <<>> /\ out.op = "none"
       /\ Validates

\* the codes and the locals a warning is attached with, one of the codes none
WarningCodes == {Str(<<"custom", "x">>), Str(<<"custom", "y">>), Undefined}
WarningLocals == {Undefined, Num(1)}

\* the builder calls of a string schema with warnings among rules that fail
WarningBuilders ==
    \/ \E code \in WarningCodes, local \in WarningLocals : CallWarning(code, local)
    \/ \E limit \in {Num(1), Num(3)} : CallMin(limit)
    \/ CallMax(Num(1))
    \/ \E p \in PatternCalls : CallPattern(p.regex, p.options)

WarningNext ==
    \/ /\ chain = <<>>
       /\ New("string")
    \/ /\ chain /= <<>> /\ out.op = "none" /\ Len(calls) < MaxCalls
       /\ WarningBuilders
    \/ /\ chain /= <<>> /\ out.op = "none"
       /\ Validates

SpecWarning == SchemaInit /\ [][WarningNext]_vars
SpecString == SchemaInit /\ [][StringNext]_vars
SpecTruncate == SchemaInit /\ [][TruncateNext]_vars
SpecAlternatives == SchemaInit /\ [][AlternativesNext]_vars
SpecSchema == SchemaInit /\ [][SchemaNext]_vars

-----------------------------------------------------------------------------
(* Registering references and child schemas into the manager of a node *)

\* the references registered: to a sibling key (a), to a key of the value itself
\* (.a), to a key of the grandparent (...a), to the context ($x), to the root (/a)
Registered ==
    {Create(<<"a">>, <<>>), Create(<<".", "a">>, <<>>), Create(<<".", ".", ".", "b">>, <<>>),
     Create(<<"$", "x">>, <<>>), Create(<<"/", "a">>, <<>>)}

RegisterInit ==
    /\ refIn = [op |-> "none"] /\ ref = [t |-> "none"] /\ refOut = [op |-> "none"]
    /\ chain = <<AnySchema>> /\ calls = <<>> /\ out = [op |-> "none"]
    /\ spaces = <<>> /\ sets = <<>> /\ ext = [op |-> "none"]

\* Joi.any(): a new node, its manager empty
NewNode ==
    /\ Len(calls) < MaxRegisters
    /\ chain' = Append(chain, AnySchema)
    /\ calls' = Append(calls, [method |-> "any"])
    /\ out' = [op |-> "any"]
    /\ UNCHANGED <<refVars, extVars>>

\* schema.$_mutateRegister(source, { family }) on the last node: source is a
\* reference, or the child-th node made before
MutateRegister(source, family, child) ==
    /\ Len(calls) < MaxRegisters
    /\ chain' = [chain EXCEPT ![Len(chain)].refs = Register(@, source, family)]
    /\ calls' = Append(calls, [method |-> "register"])
    /\ out' = [op |-> "register", source |-> source, family |-> family, child |-> child,
               before |-> Last.refs]
    /\ UNCHANGED <<refVars, extVars>>

RegisterNext ==
    \/ NewNode
    \/ \E source \in Registered, family \in {ToSibling, ToParent} :
            MutateRegister(source, family, 0)
    \/ \E child \in 1..(Len(chain) - 1), family \in {ToSibling, ToParent} :
            MutateRegister(chain[child], family, child)

SpecRegister == RegisterInit /\ [][RegisterNext]_vars

-----------------------------------------------------------------------------
(* Object schemas: keys that reference their siblings, stripped and renamed keys *)

KeyA == <<"a">>
KeyB == <<"b">>
KeyC == <<"c">>
KeyN == <<"n">>

\* a: Joi.string().lowercase(), and the same stripped, and Joi.number()
Lowercase == StringCase(StringSchema, "lower")
ReferencedSchemas == {Lowercase, Strip(Lowercase), NumberSchema}

\* b: Joi.string().valid(Joi.ref('a')), Joi.alternatives().when('a', { is: 'a',
\* then: Joi.string(), otherwise: Joi.number() }), and Joi.string()
ValidRefA == Valid(StringSchema, Create(KeyA, <<>>))
WhenA ==
    When(AlternativesSchema, Str(KeyA),
         [is |-> Str(<<"a">>), then |-> StringSchema, otherwise |-> NumberSchema])
ReferringSchemas == {ValidRefA, WhenA, StringSchema}

\* the keys of an object as declared: a and b in the two orders, two keys that
\* reference each other, and an object among the children
KeyLists ==
    {<<[key |-> KeyA, schema |-> a], [key |-> KeyB, schema |-> b]>> :
        a \in ReferencedSchemas, b \in ReferringSchemas}
    \cup {<<[key |-> KeyB, schema |-> b], [key |-> KeyA, schema |-> a]>> :
            a \in ReferencedSchemas, b \in ReferringSchemas}
    \cup {<<[key |-> KeyB, schema |-> ValidRefA],
            [key |-> KeyA, schema |-> Valid(StringSchema, Create(KeyB, <<>>))]>>,
          <<[key |-> KeyN,
             schema |-> ObjectKeys(ObjectSchema,
                                   <<[key |-> KeyA, schema |-> Strip(Lowercase)]>>)],
            [key |-> KeyA, schema |-> Lowercase]>>}

ObjectValues ==
    {Obj((KeyA :> Str(<<"A">>)) @@ (KeyB :> Str(<<"a">>))),
     Obj((KeyA :> Str(<<"a">>)) @@ (KeyB :> Str(<<"A">>))),
     Obj((KeyA :> Num(1)) @@ (KeyB :> Num(1))),
     Obj((KeyC :> Str(<<"A">>)) @@ (KeyB :> Str(<<"a">>))),
     Obj((KeyC :> Str(<<"A">>)) @@ (KeyA :> Str(<<"a">>))),
     Obj((KeyA :> Str(<<"A">>)) @@ (KeyN :> Obj((KeyA :> Str(<<"A">>))))),
     Num(1)}

CallKeys(children) ==
    Builder("object", "keys", [keys |-> children], ObjectKeys(Last, children))
CallRename(from, to) ==
    Builder("object", "rename", [from |-> from, to |-> to], ObjectRename(Last, from, to))

\* Last.validate(value, prefs)
ObjectValidates(value, convert, abortEarly) ==
    /\ chain /= <<>> /\ out.op = "none" /\ Last.type = "object"
    /\ LET state == [ancestors |-> <<>>, mainstay |-> [shadow |-> Null]]
           prefs == [convert |-> convert, abortEarly |-> abortEarly, context |-> Obj(<<>>)]
       IN  out' = [op |-> "object", value |-> value, state |-> state, prefs |-> prefs,
                   result |-> Validate(Last, value, state, prefs)]
    /\ UNCHANGED <<refVars, chain, calls, extVars>>

ObjectNext ==
    \/ New("object")
    \/ /\ Len(calls) < MaxBuilt
       /\ \/ \E children \in KeyLists : CallKeys(children)
          \/ \E to \in {KeyA, KeyB} : CallRename(KeyC, to)
    \/ \E value \in ObjectValues, convert \in BOOLEAN, abortEarly \in BOOLEAN :
            ObjectValidates(value, convert, abortEarly)

SpecObject == SchemaInit /\ [][ObjectNext]_vars

-----------------------------------------------------------------------------
(* Two validations of one schema, taken step by step *)

\* the node after the step: the coerce hook of string is the one step that
\* writes to it, through value.replace
NodeAfter(node, call) ==
    IF call.pc = "coerce" /\ call.prefs.convert /\ CoerceFrom(node, call.value)
    THEN StringCoerceWrites(node, call.value)
    ELSE node

ReentrantValues == {Str(<<"a", "A", "a">>), Str(<<"A">>), Num(1)}
ReentrantPatterns == {RegExp("a", {"y"}), RegExp("a", {}), Str(<<"a">>)}

\* the builder calls before the two validations
ReentrantBuilders ==
    \/ \E pattern \in ReentrantPatterns : CallReplace(pattern)
    \/ CallMin(Num(3))
    \/ CallPattern(RegExp("A", {}), <<>>)
    \/ CallLowercase
    \/ \E tried \in {NumberSchema, StringReplaceMin3} : CallTry(tried)
    \/ CallWhen([condition |-> Str(<<"$", "x">>),
                 options |-> [is |-> Bool(TRUE), then |-> StringSchema,
                              otherwise |-> NumberSchema]])

\* two calls of validate on the last schema, each with its own state
Enters(first, second, convert, again) ==
    /\ chain /= <<>> /\ out.op = "none"
    /\ LET state == [ancestors |-> <<>>, mainstay |-> [shadow |-> Null]]
           context == Obj((<<"x">> :> Bool(TRUE)))
       IN  out' = [op |-> "calls", schema |-> Last,
                   call |-> <<Entered(first, state,
                                      [convert |-> convert, abortEarly |-> TRUE,
                                       context |-> context]),
                              Entered(second, state,
                                      [convert |-> again, abortEarly |-> TRUE,
                                       context |-> context])>>]
    /\ UNCHANGED <<refVars, chain, calls, extVars>>

\* the next step of one of the two calls, on the schema they share
StepCall(i) ==
    /\ out.op = "calls" /\ out.call[i].pc /= "done"
    /\ \E node \in {Last}, call \in {out.call[i]} :
            /\ out' = [out EXCEPT !.call[i] = StepOf(node, call)]
            /\ chain' = [chain EXCEPT ![Len(chain)] = NodeAfter(node, call)]
    /\ UNCHANGED <<refVars, calls, extVars>>

ReentrantNext ==
    \/ \E type \in {"string", "alternatives"} : New(type)
    \/ /\ Len(calls) < MaxBuilt
       /\ ReentrantBuilders
    \/ \E first \in ReentrantValues, second \in ReentrantValues, convert \in BOOLEAN,
          again \in BOOLEAN : Enters(first, second, convert, again)
    \/ \E i \in {1, 2} : StepCall(i)

SpecReentrant == SchemaInit /\ [][ReentrantNext]_vars

-----------------------------------------------------------------------------
(* schema.extend({ type, coerce }): the coerce hooks of a type and of its base *)

\* what a coerce method returns: nothing, { errors } or { value }
Nothing == [nothing |-> TRUE]
Errors(code) == [errors |-> code]
Value(value) == [value |-> value]

\* the coerce methods of the tests 'extends coerce (from different types)' and
\* 'extends coerce (undefined)' of test/extend.js
CoerceMethod(name, value) ==
    IF name = "type1"
    THEN (IF value = Str(<<"1">>) THEN Errors(<<"type1", "error">>)
          ELSE IF value = Str(<<"2">>) THEN Value(Num(2))
          ELSE Nothing)
    ELSE IF name = "type2"
    THEN (IF value = Num(4) THEN Errors(<<"type2", "error">>)
          ELSE IF value = Num(2) THEN Value(Str(<<"x">>))
          ELSE Nothing)
    ELSE IF name = "undefined1"
    THEN (IF value = Str(<<"1">>) THEN Value(Undefined) ELSE Nothing)
    ELSE (IF value = Str(<<"2">>) THEN Value(Undefined) ELSE Nothing)

CoerceMethods == {"type1", "type2", "undefined1", "undefined2"}

\* coerce: { from, method } of a definition, from being the set of the types
\* declared, empty when none is; of is the type that defines the hook
Hook(from, method, of) == [from |-> from, method |-> method, of |-> of]

\* typeof value
TypeOf(value) == value.t

\* the hook of a derived type with the hook of the type first and the hook of
\* its base after it
CoerceChildFirst(child, parent) ==
    IF child = Null THEN parent
    ELSE IF parent = Null THEN child
    ELSE [child |-> parent, parent |-> child,
          from |-> IF child.from /= {} /\ parent.from /= {} THEN child.from \cup parent.from
                   ELSE {}]

\* the coerce hook of a derived type, made of the hook of its definition and
\* the hook of its base
ExtendCoerce(child, parent) ==
    IF child = Null THEN parent
    ELSE IF parent = Null THEN child
    ELSE [child |-> child, parent |-> parent,
          from |-> IF child.from /= {} /\ parent.from /= {} THEN child.from \cup parent.from
                   ELSE {}]

\* from of a hook allows the value
Coerces(coerce, value) == coerce.from = {} \/ TypeOf(value) \in coerce.from

\* a result of a hook that is final: errors, or a value of undefined
Final(outcome) ==
    outcome /= Nothing /\ (Has(outcome, "errors") \/ outcome.value = Undefined)

\* the call of a coerce hook: what it returns, and the methods called with the
\* value each was given, in the order of the calls
RECURSIVE CallCoerce(_, _)
CallCoerce(coerce, value) ==
    IF Has(coerce, "method")
    THEN [outcome |-> CoerceMethod(coerce.method, value),
          called |-> <<[of |-> coerce.of, value |-> value]>>]
    ELSE LET coerced == IF Coerces(coerce.parent, value) THEN CallCoerce(coerce.parent, value)
                        ELSE [outcome |-> Nothing, called |-> <<>>]
             current == IF coerced.outcome /= Nothing /\ ~Final(coerced.outcome)
                        THEN coerced.outcome.value ELSE value
             own == IF Coerces(coerce.child, current) THEN CallCoerce(coerce.child, current)
                    ELSE [outcome |-> Nothing, called |-> <<>>]
         IN  IF Final(coerced.outcome) THEN coerced
             ELSE [outcome |-> IF own.outcome /= Nothing THEN own.outcome ELSE coerced.outcome,
                   called |-> coerced.called \o own.called]

\* type.validate(value) of a type of any with coerce hooks, prefs.convert being
\* the default: the errors of the hook reject the value, its value takes the
\* place of the value
CoerceValidate(type, value) ==
    IF type.coerce /= Null /\ Coerces(type.coerce, value)
    THEN LET coerced == CallCoerce(type.coerce, value)
         IN  [value |-> IF coerced.outcome /= Nothing /\ Has(coerced.outcome, "value")
                        THEN coerced.outcome.value ELSE value,
              errors |-> IF coerced.outcome /= Nothing /\ Has(coerced.outcome, "errors")
                         THEN <<Error(coerced.outcome.errors, <<>>)>> ELSE <<>>,
              called |-> coerced.called]
    ELSE [value |-> value, errors |-> <<>>, called |-> <<>>]

\* the values the tests validate, and a boolean
CoerceValues ==
    {Str(<<"1">>), Str(<<"2">>), Str(<<"3">>), Num(2), Num(4), Num(5), Bool(TRUE)}

\* Joi.any()
CoerceInit ==
    /\ refIn = [op |-> "none"] /\ ref = [t |-> "none"] /\ refOut = [op |-> "none"]
    /\ chain = <<[own |-> Null, coerce |-> Null]>>
    /\ calls = <<>> /\ out = [op |-> "none"]
    /\ spaces = <<>> /\ sets = <<>> /\ ext = [op |-> "none"]

\* Last.extend({ type, coerce }): own is the hook of the definition, Null when
\* the definition has none
SchemaExtend(own) ==
    /\ out.op = "none" /\ Len(chain) <= MaxExtends
    /\ chain' = Append(chain, [own |-> own, coerce |-> ExtendCoerce(own, Last.coerce)])
    /\ UNCHANGED <<refVars, calls, out, extVars>>

\* Last.validate(value)
CoerceValidates(value) ==
    /\ out.op = "none"
    /\ out' = [op |-> "coerce", value |-> value, result |-> CoerceValidate(Last, value)]
    /\ UNCHANGED <<refVars, chain, calls, extVars>>

CoerceNext ==
    \/ SchemaExtend(Null)
    \/ \E from \in {{}, {"string"}, {"number"}}, method \in CoerceMethods :
            SchemaExtend(Hook(from, method, Len(chain) + 1))
    \/ \E value \in CoerceValues : CoerceValidates(value)

SpecCoerce == CoerceInit /\ [][CoerceNext]_vars

-----------------------------------------------------------------------------
(* Joi.extend(...extensions): namespaces and the types they hold *)

\* a type of a namespace: what its factory gives a schema, the rules being the
\* methods of the schema and the messages the templates of its error codes
Type(type, rules, messages) == [type |-> type, rules |-> rules, messages |-> messages]

\* what the validate function of a rule does: it returns a value, or
\* helpers.error(code)
Returns(value) == [returns |-> value]
Fails(code) == [error |-> code]

\* the messages of any, number and string
AnyMessages == (<<"any", "required">> :> "is required")
NumberMessages == Assign(AnyMessages, (<<"number", "base">> :> "must be a number"))
StringMessages == Assign(AnyMessages, (<<"string", "base">> :> "must be a string"))

\* the types of Joi, the root namespace
RootTypes ==
    [any |-> Type("any", <<>>, AnyMessages),
     number |-> Type("number", [min |-> Returns(Undefined), integer |-> Returns(Undefined)],
                     NumberMessages),
     string |-> Type("string", [min |-> Returns(Undefined), trim |-> Returns(Undefined)],
                     StringMessages)]

\* an extension definition; its base is taken from Joi (Joi.number()), from the
\* namespace handed to the extension callback (joi.number()), or left out
Definition(type, base, rules, messages) ==
    [type |-> type, base |-> base, rules |-> rules, messages |-> messages]

NoBase == [from |-> "none"]
OfRoot(type) == [from |-> "Joi", type |-> type]
OfJoi(type) == [from |-> "joi", type |-> type]

\* Extend.type(base, definition) keeping the rules of the base before those of
\* the definition
TypeBaseFirst(base, definition) ==
    Type(definition.type,
         Assign(definition.rules, base.rules),
         Assign(definition.messages, base.messages))

\* Extend.type(base, definition): the schema of the new type has the rules and
\* the messages of its base, overlaid with those of the definition
ExtendType(base, definition) ==
    Type(definition.type,
         Assign(base.rules, definition.rules),
         Assign(base.messages, definition.messages))

\* the base of a definition taken from the type of its name when the namespace
\* has one already
BaseOrSameName(definition, joi, this) ==
    IF definition.type \in DOMAIN joi THEN joi[definition.type]
    ELSE IF definition.base.from = "none" THEN this.any
    ELSE IF definition.base.from = "joi" THEN joi[definition.base.type]
    ELSE RootTypes[definition.base.type]

\* item.base || this.any(): the base schema of a definition, joi being the
\* namespace under construction and this the namespace extend was called on
BaseOf(definition, joi, this) ==
    IF definition.base.from = "none" THEN this.any
    ELSE IF definition.base.from = "joi" THEN joi[definition.base.type]
    ELSE RootTypes[definition.base.type]

\* the loop of extend over the extensions: each is expanded against joi, the
\* copy made so far, and its type replaces the factory of that name
RECURSIVE ExtendAll(_, _, _)
ExtendAll(joi, extensions, this) ==
    IF extensions = <<>> THEN joi
    ELSE LET definition == Head(extensions)
         IN  IF definition.base.from = "joi" /\ definition.base.type \notin DOMAIN joi
             THEN Thrown("joi[type] is not a function")
             ELSE ExtendAll(Assign(joi, (definition.type :>
                                            ExtendType(BaseOf(definition, joi, this),
                                                       definition))),
                            Tail(extensions), this)

\* the types the extensions name
Named(extensions) == {extensions[i].type : i \in 1..Len(extensions)}

\* joi._types of the new namespace being the Set of the old one
ShareTypes(objects, id) == [objects |-> objects, id |-> id]

\* joi._types = new Set(joi._types): a new Set object with the same members
CopyTypes(objects, id) == [objects |-> Append(objects, objects[id]), id |-> Len(objects) + 1]

\* the message of an error: the rendered template, or the notice about a code
NotDefined(code) ==
    [text |-> "Error code is not defined, your custom type is missing the correct messages definition",
     code |-> code]

\* the message of an error code without a template rendered as nothing
RenderNothing(messages, code) ==
    IF code \in DOMAIN messages THEN [text |-> messages[code]] ELSE [text |-> ""]

\* the message of a validation error: the template of the code, or the notice
\* that the code is not defined
Render(messages, code) ==
    IF code \in DOMAIN messages THEN [text |-> messages[code]] ELSE NotDefined(code)

\* schema[rule]().validate(value) for a schema of the type and a value that
\* passes the base check of the type
UseRule(type, rule) ==
    IF rule \notin DOMAIN type.rules THEN Thrown("schema[rule] is not a function")
    ELSE IF "error" \in DOMAIN type.rules[rule]
    THEN [error |-> [code |-> type.rules[rule].error,
                     message |-> Render(type.messages, type.rules[rule].error)]]
    ELSE [value |-> type.rules[rule].returns]

\* the extensions handed to extend in test/extend.js
ExtensionLists ==
    {<<Definition("special", NoBase,
                  [foo |-> Returns(Null), bar |-> Fails(<<"special", "bar">>)],
                  (<<"special", "bar">> :> "oh no bar !"))>>,
     <<Definition("special", OfRoot("string"), <<>>, <<>>)>>,
     <<Definition("special", OfRoot("string"), [fail |-> Fails(<<"special", "fail">>)], <<>>)>>,
     <<Definition("special", OfJoi("number"), [foo |-> Returns(Num(1))], <<>>),
       Definition("special", OfJoi("special"), [bar |-> Returns(Num(2))], <<>>)>>,
     <<Definition("special", OfRoot("number"), [foo |-> Returns(Num(1))], <<>>),
       Definition("special", OfRoot("string"), [bar |-> Returns(Num(2))], <<>>)>>,
     <<Definition("number", OfJoi("number"), [foo |-> Fails(<<"number", "foo">>)],
                  (<<"number", "foo">> :> "foo")),
       Definition("number", OfJoi("number"), [bar |-> Fails(<<"number", "bar">>)],
                  (<<"number", "bar">> :> "bar"))>>,
     <<Definition("number", OfJoi("number"), [foo |-> Fails(<<"number", "foo">>)],
                  (<<"number", "foo">> :> "foo")),
       Definition("number", OfJoi("number"), [bar |-> Fails(<<"number", "base">>)], <<>>)>>,
     <<Definition("special", OfJoi("number"), [foo |-> Returns(Num(1))],
                  (<<"special", "foo">> :> "first")),
       Definition("special", OfJoi("special"), [foo |-> Fails(<<"special", "foo">>)],
                  (<<"special", "foo">> :> "second"))>>}

\* the rules called on the schemas
RuleNames == {"foo", "bar", "fail", "min", "integer", "trim"}

ExtendInit ==
    /\ refIn = [op |-> "none"] /\ ref = [t |-> "none"] /\ refOut = [op |-> "none"]
    /\ chain = <<>> /\ calls = <<>> /\ out = [op |-> "none"]
    /\ spaces = <<[props |-> RootTypes, types |-> 1]>>
    /\ sets = <<DOMAIN RootTypes>>
    /\ ext = [op |-> "none"]

\* spaces[i].extend(...extensions): the new namespace is a copy of this one with
\* a Set of its own, and gets the types of the extensions
Extend(i, extensions) ==
    /\ Len(spaces) <= MaxExtends
    /\ LET this == spaces[i]
           joi == ExtendAll(this.props, extensions, this.props)
           copied == CopyTypes(sets, this.types)
       IN  IF IsThrown(joi)
           THEN /\ ext' = [op |-> "thrown", on |-> i, extensions |-> extensions]
                /\ UNCHANGED <<spaces, sets>>
           ELSE /\ spaces' = Append(spaces, [props |-> joi, types |-> copied.id])
                /\ sets' = [copied.objects EXCEPT ![copied.id] = @ \cup Named(extensions)]
                /\ ext' = [op |-> "extend", on |-> i, extensions |-> extensions]
    /\ UNCHANGED <<refVars, schemaVars>>

\* spaces[i][type]()[rule]().validate(value)
Use(i, type, rule) ==
    /\ type \in DOMAIN spaces[i].props
    /\ ext' = [op |-> "use", on |-> i, type |-> type, rule |-> rule,
               result |-> UseRule(spaces[i].props[type], rule)]
    /\ UNCHANGED <<refVars, schemaVars, spaces, sets>>

ExtendNext ==
    \/ \E i \in 1..Len(spaces), extensions \in ExtensionLists : Extend(i, extensions)
    \/ \E i \in 1..Len(spaces), type \in {"number", "special"}, rule \in RuleNames :
            Use(i, type, rule)

SpecExtend == ExtendInit /\ [][ExtendNext]_vars

-----------------------------------------------------------------------------
(* Properties of references *)

\* a resolve call that no shadow entry, map or adjust function interferes with
PlainResolve ==
    /\ refOut.op = "resolve"
    /\ ref.map = Null /\ ref.adjust = Null
    /\ \/ refOut.state.mainstay.shadow = Null
       \/ ~refOut.options.shadow
       \/ ShadowGet(refOut.state.mainstay.shadow, ref.path) = Undefined

\* a reference created with the default separator from this key
CreatedFrom(key) ==
    /\ refIn.op = "create" /\ refIn.key = key
    /\ "separator" \notin DOMAIN refIn.options
    /\ ~IsThrown(ref)

\* C6: resolving a value reference whose ancestor depth exceeds the number of
\* ancestors of the validation state throws 'Invalid reference exceeds the
\* schema root'; it never returns a value, undefined included.
C6_ExceedsRootThrows ==
    (/\ refOut.op = "resolve"
     /\ ref.type = "value" /\ "ancestor" \in DOMAIN ref
     /\ ref.ancestor > Len(refOut.state.ancestors))
    => refOut.result = Thrown("Invalid reference exceeds the schema root")

C6_Witness ==
    /\ refOut.op = "resolve"
    /\ ref.type = "value" /\ "ancestor" \in DOMAIN ref
    /\ ref.ancestor = 2 /\ Len(refOut.state.ancestors) = 1
    /\ IsThrown(refOut.result)

\* C7: the reference created from "...x" with separator "." has path [x] and
\* ancestor 2, and resolves x against state.ancestors[1], the grandparent.
C7_TripleSeparatorGrandparent ==
    CreatedFrom(<<".", ".", ".", "x">>) =>
        /\ ref.path = << <<"x">> >>
        /\ ref.ancestor = 2
        /\ (refOut.op = "resolve" /\ Len(refOut.state.ancestors) >= 2) =>
                /\ refOut.target = refOut.state.ancestors[2]
                /\ PlainResolve => refOut.result = Reach(refOut.state.ancestors[2], << <<"x">> >>)

C7_Witness ==
    /\ CreatedFrom(<<".", ".", ".", "x">>)
    /\ PlainResolve /\ Len(refOut.state.ancestors) = 2
    /\ refOut.result = Tree(2).props[<<"x">>]

\* C8, as stated: the reference created from "..x" with the default separator
\* resolves x in the grandparent of the value being validated.
C8_DoubleSeparatorGrandparent ==
    (/\ CreatedFrom(<<".", ".", "x">>)
     /\ refOut.op = "resolve" /\ Len(refOut.state.ancestors) >= 2)
    => refOut.target = refOut.state.ancestors[2]

\* C8, amended: the reference created from "..x" with the default separator has
\* path [x] and ancestor 1 and resolves x in the parent (state.ancestors[0]): the
\* first separator marks a relative key, every further one climbs one level.
C8_DoubleSeparatorParent ==
    CreatedFrom(<<".", ".", "x">>) =>
        /\ ref.path = << <<"x">> >>
        /\ ref.ancestor = 1
        /\ (refOut.op = "resolve" /\ Len(refOut.state.ancestors) >= 1) =>
                /\ refOut.target = refOut.state.ancestors[1]
                /\ PlainResolve => refOut.result = Reach(refOut.state.ancestors[1], << <<"x">> >>)

C8_Witness ==
    /\ CreatedFrom(<<".", ".", "x">>)
    /\ PlainResolve /\ Len(refOut.state.ancestors) = 2
    /\ refOut.result = Tree(1).props[<<"x">>]

\* the target the reference type calls for: prefs.context, the local map, the
\* value, the ancestor N - 1 or the last ancestor
ExpectedTarget ==
    LET ancestors == refOut.state.ancestors
    IN  IF ref.type = "global" THEN refOut.prefs.context
        ELSE IF ref.type = "local" THEN refOut.local
        ELSE IF ref.ancestor = 0 THEN refOut.value
        ELSE IF ref.ancestor = AncestorRoot THEN ancestors[Len(ancestors)]
        ELSE ancestors[ref.ancestor]

\* C9: resolve reads a global reference from prefs.context, a local reference
\* from the local map, a value reference with ancestor 0 from the value, with
\* ancestor N >= 1 from state.ancestors[N - 1], and a root reference from the last
\* ancestor.
C9_TargetByType ==
    (/\ refOut.op = "resolve"
     /\ ref.type = "value" => /\ ref.ancestor <= Len(refOut.state.ancestors)
                              /\ ref.ancestor = AncestorRoot => Len(refOut.state.ancestors) >= 1)
    => /\ refOut.target = ExpectedTarget
       /\ refOut.result = ResolveTarget(ref, ExpectedTarget, refOut.state, refOut.options)
       /\ PlainResolve => refOut.result = Reach(ExpectedTarget, ref.path)

C9_Witness ==
    /\ PlainResolve
    /\ ref.type = "value" /\ ref.ancestor = AncestorRoot
    /\ Len(refOut.state.ancestors) = 2
    /\ refOut.result = Num(2)

\* the ancestor of a reference, or "none" for a reference without one
AncestorOf(r) == IF "ancestor" \in DOMAIN r THEN <<r.ancestor>> ELSE <<>>

\* C10: Ref.build of the ref part of a reference's description gives a reference
\* with the same path, type, separator, ancestor and map; the description leaves
\* out the type value, the separator '.' and the ancestor 1.
C10_RefRoundTrip ==
    refOut.op = "build" =>
        /\ ~IsThrown(refOut.result)
        /\ refOut.result.path = ref.path
        /\ refOut.result.type = ref.type
        /\ refOut.result.separator = ref.separator
        /\ AncestorOf(refOut.result) = AncestorOf(ref)
        /\ refOut.result.map = ref.map
        /\ ref.type = "value" => "type" \notin DOMAIN refOut.desc
        /\ ref.separator = "." => "separator" \notin DOMAIN refOut.desc
        /\ AncestorOf(ref) = <<1>> => "ancestor" \notin DOMAIN refOut.desc

C10_Witness ==
    /\ refOut.op = "build"
    /\ ref.type = "value" /\ ref.ancestor = 0 /\ ref.separator = "/"
    /\ refOut.desc.ancestor = 0
    /\ refOut.result.ancestor = 0

\* the value _resolve reads before adjust and map: the shadow entry of the path
\* of a value reference, the value reached in the target without one
RawResolved ==
    LET shadow == refOut.state.mainstay.shadow
    IN  IF /\ ref.type = "value" /\ shadow /= Null /\ refOut.options.shadow
           /\ ShadowGet(shadow, ref.path) /= Undefined
        THEN ShadowGet(shadow, ref.path)
        ELSE Reach(refOut.target, ref.path)

\* the value is a key of the map
IsKey(map, v) == \E i \in 1..Len(map.items) : map.items[i][1] = v

\* the value the map holds for a key
ValueOf(map, v) ==
    map.items[CHOOSE i \in 1..Len(map.items) :
                  map.items[i][1] = v /\ \A j \in (i + 1)..Len(map.items) : map.items[j][1] /= v][2]

\* C11: a reference cannot be created with both adjust and map; resolve gives
\* adjust(raw) for a reference with adjust, and for a reference with a map the
\* mapped value when the raw value is a key of the map and the raw value when it
\* is not.
C11_AdjustAndMap ==
    /\ (refIn.op = "create" /\ {"adjust", "map"} \subseteq DOMAIN refIn.options) => IsThrown(ref)
    /\ (refOut.op = "resolve" /\ ~IsThrown(refOut.result)) =>
            /\ ref.adjust /= Null => refOut.result = Apply(ref.adjust, RawResolved)
            /\ ref.map /= Null =>
                    refOut.result = IF IsKey(ref.map, RawResolved)
                                    THEN ValueOf(ref.map, RawResolved)
                                    ELSE RawResolved

\* the type Ref.create or Ref.build was asked for
AskedType ==
    IF refIn.op = "create" THEN Context(refIn.key, DefaultPrefix).type
    ELSE IF "type" \in DOMAIN refIn.desc THEN refIn.desc.type ELSE "value"

\* the ancestor Ref.create or Ref.build was given
AskedAncestor ==
    IF refIn.op = "create" THEN "ancestor" \in DOMAIN refIn.options
    ELSE "ancestor" \in DOMAIN refIn.desc

\* a reference that is not a value reference has no ancestor
NoAncestor(r) == (~IsThrown(r) /\ r.type \in {"global", "local"}) => "ancestor" \notin DOMAIN r

\* C12: a global or local reference constructed by create, build or clone has
\* no ancestor, and constructing one with an ancestor throws.
C12_NonValueNoAncestor ==
    refIn.op \in {"create", "build"} =>
        /\ NoAncestor(ref)
        /\ refOut.op \in {"clone", "build"} => NoAncestor(refOut.result)
        /\ (AskedType \in {"global", "local"} /\ AskedAncestor) => IsThrown(ref)

C12_Witness ==
    /\ refIn.op = "build" /\ refIn.desc = [path |-> << <<"x">> >>, type |-> "local", ancestor |-> 0]
    /\ ref = Thrown("Non-value references cannot reference ancestors")

-----------------------------------------------------------------------------
(* Properties of schemas *)

\* the error codes of a result, in the order reported
Codes(result) == [i \in 1..Len(result.errors) |-> result.errors[i].code]

\* a validation of the last schema, a string schema, that got past the base check
\* with the string the rules were given
StringChecked ==
    /\ out.op = "validate" /\ Last.type = "string"
    /\ out.result.value.t = "string" /\ out.result.value.s /= <<>>
    /\ \E i \in 1..Len(out.result.trace) : out.result.trace[i].step = "validate"

\* the limit of a length rule in the validation: the limit itself, or the value
\* its reference reads in prefs.context
LimitOf(rule) ==
    IF IsResolvable(rule.args.limit) THEN Reach(out.prefs.context, rule.args.limit.path)
    ELSE rule.args.limit

\* every limit given as a reference resolves to a valid limit in the validation
ValidLimits(schema) ==
    \A i \in 1..Len(schema.rules) :
        schema.rules[i].method = "length" => Limit(LimitOf(schema.rules[i]))

\* the limit of the rule is a reference to something that is no limit
BadLimit(rule) == rule.method = "length" /\ ~Limit(LimitOf(rule))

\* the value breaks the rule: too short, too long, without a match, not in the
\* case, not trimmed; a rule whose limit is no limit is broken by every value
Violates(chars, rule) ==
    \/ BadLimit(rule)
    \/ rule.name = "min" /\ ~BadLimit(rule) /\ Len(chars) < LimitOf(rule).n
    \/ rule.name = "max" /\ ~BadLimit(rule) /\ Len(chars) > LimitOf(rule).n
    \/ rule.name = "pattern" /\ \A i \in 1..Len(chars) : chars[i] /= rule.args.regex.source
    \/ rule.name = "case" /\ rule.args.direction = "lower" /\ \E i \in 1..Len(chars) : chars[i] = "A"
    \/ rule.name = "trim" /\ chars /= <<>> /\ (chars[1] = " " \/ chars[Len(chars)] = " ")

\* the error code a broken rule reports
CodeOf(rule) ==
    IF BadLimit(rule) THEN <<"any", "ref">>
    ELSE IF rule.name = "pattern" THEN <<"string", "pattern", "base">>
    ELSE IF rule.name = "case" THEN <<"string", "lowercase">>
    ELSE <<"string", rule.name>>

\* the rules that check the value: with prefs.convert the rules declared
\* convert: true have converted the value instead
Checking(schema, prefs) ==
    SelectSeq(schema.rules, LAMBDA rule : ~(prefs.convert /\ rule.name \in {"case", "trim"}))

\* the rules whose validate function is called: the checking rules but those
\* with an argument that resolved to an invalid value
Called(schema, prefs) == SelectSeq(Checking(schema, prefs), LAMBDA rule : ~BadLimit(rule))

\* coercion stops at a truncate whose limit resolves to no limit
CoerceFails(schema) ==
    /\ Flag(schema, "truncate") = <<TRUE>> /\ HasRule(schema, "max")
    /\ BadLimit(GetRule(schema, "max"))

\* the rules of the schema the value breaks, in the order they were declared
Failing(schema, chars, prefs) ==
    SelectSeq(Checking(schema, prefs), LAMBDA rule : Violates(chars, rule))

\* C1: build(describe(S)) accepts and rejects the same inputs as S, with the same
\* value on accept and the same error codes on reject, for string schemas (replace
\* included) and alternatives built with try() and when().
C1_RoundTripValidatesAlike ==
    out.op = "validate" => out.rebuilt = Outcome(out.result)

C1_Witness ==
    /\ out.op = "validate" /\ Last.type = "alternatives"
    /\ \E i \in 1..Len(Last.terms.matches) : Has(Last.terms.matches[i], "otherwise")
    /\ \E i \in 1..Len(Last.terms.matches) :
            /\ Has(Last.terms.matches[i], "schema")
            /\ Last.terms.matches[i].schema = StringReplaceMin3
    /\ ~IsThrown(out.result) /\ out.result.errors = <<>>
    /\ out.result.value /= out.value

\* C2: a builder call S.m(...) leaves S unchanged: the description of every
\* schema built so far is the same after the call as before it.
C2_BuilderLeavesReceiver ==
    [][\A i \in 1..Len(chain) : DescribeSchema(chain'[i]) = DescribeSchema(chain[i])]_vars

\* C3: when a value breaks at least two rules of a schema, validating with
\* abortEarly reports exactly one error, that of the first broken rule, and
\* validating without it reports the errors of all broken rules in the order the
\* rules were declared.
C3_AbortEarlyOrCollectAll ==
    LET failing == Failing(Last, out.result.value.s, out.prefs)
    IN  (StringChecked /\ Len(failing) >= 2)
        => IF out.prefs.abortEarly
           THEN Codes(out.result) = <<CodeOf(failing[1])>>
           ELSE Codes(out.result) = [i \in 1..Len(failing) |-> CodeOf(failing[i])]

C3_Witness ==
    /\ StringChecked /\ ~out.prefs.abortEarly
    /\ Len(Failing(Last, out.result.value.s, out.prefs)) >= 2
    /\ Codes(out.result) = <<<<"string", "pattern", "base">>, <<"string", "min">>>>

\* C4: with prefs.convert the coerce hook runs first, on the raw input, then the
\* base validate hook, then the rules in the order they were attached; the base
\* hook and every rule are given the coerced value (lower case when the schema
\* converts the case and replaces nothing, no longer than the limit when it
\* truncates), and a failure of the base check runs no rule. An input that is
\* not a string is not coerced, and fails the base check before any rule; a
\* coercion that fails (a truncate limit that resolves to no limit) runs neither
\* the base check nor a rule.
C4_CoerceThenBaseThenRules ==
    (out.op = "validate" /\ Last.type = "string" /\ out.prefs.convert)
    => LET trace == out.result.trace
           ran == [i \in 1..(Len(trace) - 2) |-> trace[i + 2].step]
           checking == Called(Last, out.prefs)
       IN  IF out.value.t /= "string"
           THEN /\ trace = <<Step("validate", out.value)>>
                /\ Codes(out.result) = <<<<"string", "base">>>>
           ELSE IF CoerceFails(Last)
           THEN /\ trace = <<Step("coerce", out.value)>>
                /\ Codes(out.result) = <<<<"any", "ref">>>>
           ELSE /\ Len(trace) >= 2
                /\ trace[1] = Step("coerce", out.value)
                /\ trace[2].step = "validate"
                /\ Len(ran) <= Len(checking)
                /\ \A i \in 1..Len(ran) : ran[i] = checking[i].name
                /\ ~out.prefs.abortEarly /\ out.result.value.s /= <<>>
                    => Len(ran) = Len(checking)
                /\ \A i \in 2..Len(trace) :
                    /\ trace[i].value = out.result.value
                    /\ (HasRule(Last, "case") /\ Last.terms.replacements = Null)
                        => \A k \in 1..Len(trace[i].value.s) : trace[i].value.s[k] /= "A"
                    /\ (Flag(Last, "truncate") = <<TRUE>> /\ HasRule(Last, "max"))
                        => Len(trace[i].value.s) <= LimitOf(GetRule(Last, "max")).n
                /\ out.result.value.s = <<>>
                    => Len(trace) = 2 /\ Codes(out.result) = <<<<"string", "empty">>>>

C4_Witness ==
    /\ out.op = "validate" /\ Last.type = "string" /\ out.prefs.convert
    /\ HasRule(Last, "case") /\ HasRule(Last, "pattern")
    /\ Len(out.result.trace) >= 3
    /\ out.result.trace[3].value /= out.value
    /\ out.result.errors = <<>>

\* the schema after the j-th builder call of the chain
After(j) == chain[j + 1]

\* the positions in the ruleset of the rules of a name
Positions(schema, name) == {p \in 1..Len(schema.rules) : schema.rules[p].name = name}

\* C5: a rule declared multi: true (pattern) appears once per call, in the order
\* of the calls; a rule not declared multi appears once however often it was
\* added, at the position its first addition gave it, with the arguments of the
\* last addition.
C5_RuleMultiplicity ==
    (chain /= <<>> /\ Last.type = "string")
    => /\ LET added == SelectSeq(calls, LAMBDA call : call.method = "pattern")
              kept == SelectSeq(Last.rules, LAMBDA rule : rule.name = "pattern")
          IN  /\ Len(kept) = Len(added)
              /\ \A i \in 1..Len(kept) : kept[i].args.regex = added[i].args.regex
       /\ \A name \in {"min", "max", "case", "trim"} :
            \A j \in 1..Len(calls) :
                calls[j].method = name
                => /\ \A k \in j..Len(calls) :
                        Positions(After(k), name) = Positions(After(j), name)
                   /\ Cardinality(Positions(After(j), name)) = 1
                   /\ GetRule(After(j), name).args = calls[j].args

C5_Witness ==
    /\ Len(calls) = 3 /\ Last.type = "string"
    /\ calls[1].method = "min" /\ calls[2].method = "pattern" /\ calls[3].method = "min"
    /\ calls[1].args /= calls[3].args
    /\ Positions(Last, "min") = {1}
    /\ Len(Last.rules) = 2

\* the argument of a builder call is malformed: a limit that is neither a
\* non-negative integer nor a reference, a regex with the flag g or y, an option
\* pattern() does not know
Malformed(method, args) ==
    \/ /\ method \in {"min", "max"}
       /\ ~IsResolvable(args.limit)
       /\ ~(args.limit.t = "number" /\ args.limit.n >= 0)
    \/ /\ method = "pattern"
       /\ \/ args.regex.flags \cap {"g", "y"} /= {}
          \/ \E key \in DOMAIN args.options : key \notin {"invert", "name"}

\* C17: a builder call with a malformed argument throws and gives no schema, and
\* no other builder call throws; validating a value never throws: a value that is
\* not a string, or that breaks a rule, comes back with errors in the result.
C17_TwoErrorChannels ==
    /\ out.op = "thrown" => Malformed(out.method, out.args) /\ Len(chain) = Len(calls) + 1
    /\ \A j \in 1..Len(calls) : ~Malformed(calls[j].method, calls[j].args)
    /\ (out.op = "validate" /\ Last.type = "string")
        => /\ ~IsThrown(out.result)
           /\ out.value.t /= "string" => out.result.errors /= <<>>
           /\ (StringChecked /\ Failing(Last, out.result.value.s, out.prefs) /= <<>>)
                => out.result.errors /= <<>>

C17_Witness ==
    /\ out.op = "thrown" /\ out.method = "pattern" /\ "g" \in out.args.regex.flags
    /\ Len(chain) = 2 /\ calls[1].method = "max"

\* the error any.ref of a limit given as a reference
RefError(rule) ==
    Error(<<"any", "ref">>,
          [arg |-> "limit", ref |-> rule.args.limit, reason |-> "must be a positive integer"])

\* C18: a limit given as a reference is accepted by the builder; when the
\* reference resolves to a value that is no limit, a truncating coercion fails
\* with any.ref before the base check, and otherwise the rule reports any.ref,
\* with the argument name and the reference in its context, and its validate
\* function is not called.
C18_LateCheckedReference ==
    /\ (out.op = "thrown" /\ out.method \in {"min", "max"}) => ~IsResolvable(out.args.limit)
    /\ (/\ out.op = "validate" /\ Last.type = "string" /\ HasRule(Last, "max")
        /\ IsResolvable(GetRule(Last, "max").args.limit)
        /\ BadLimit(GetRule(Last, "max")))
        => LET rule == GetRule(Last, "max")
               trace == out.result.trace
           IN  /\ \A i \in 1..Len(trace) : trace[i].step /= "max"
               /\ (out.prefs.convert /\ out.value.t = "string" /\ Flag(Last, "truncate") = <<TRUE>>)
                    => /\ out.result.errors = <<RefError(rule)>>
                       /\ trace = <<Step("coerce", out.value)>>
               /\ (StringChecked /\ ~out.prefs.abortEarly)
                    => \E i \in 1..Len(out.result.errors) : out.result.errors[i] = RefError(rule)

C18_Witness ==
    /\ out.op = "validate" /\ Last.type = "string" /\ HasRule(Last, "max")
    /\ GetRule(Last, "max").args.limit = LimitRef
    /\ Flag(Last, "truncate") = <<TRUE>> /\ out.prefs.convert
    /\ out.value = Str(<<"a", "A">>)
    /\ out.result.errors = <<RefError(GetRule(Last, "max"))>>

\* the string has a capital letter, a space at either end
Capital(chars) == \E i \in 1..Len(chars) : chars[i] = "A"
Padded(chars) == chars /= <<>> /\ (chars[1] = " " \/ chars[Len(chars)] = " ")

Branch(i) == Validate(Last.terms.matches[i].schema, out.value, out.state, out.prefs)

\* the i-th match is the first whose schema validates the value without errors
FirstMatch(i) ==
    /\ Branch(i).errors = <<>>
    /\ \A j \in 1..(i - 1) : Branch(j).errors /= <<>>

\* C20: for an alternatives schema made of try() schemas, the result of the
\* first schema, in the order added, that validates the value without errors is
\* the result of the alternatives, its value included, whatever the schemas
\* after it would give.
C20_FirstMatchWins ==
    (/\ out.op = "validate" /\ Last.type = "alternatives"
     /\ \A i \in 1..Len(Last.terms.matches) : Has(Last.terms.matches[i], "schema"))
    => \A i \in 1..Len(Last.terms.matches) :
            FirstMatch(i) => /\ out.result.errors = <<>>
                             /\ out.result.value = Branch(i).value

C20_Witness ==
    /\ out.op = "validate" /\ Last.type = "alternatives"
    /\ \A i \in 1..Len(Last.terms.matches) : Has(Last.terms.matches[i], "schema")
    /\ \E i, j \in 1..Len(Last.terms.matches) :
            /\ i < j /\ FirstMatch(i)
            /\ Branch(j).errors = <<>> /\ Branch(j).value /= Branch(i).value
            /\ out.result.value = Branch(i).value

-----------------------------------------------------------------------------
(* Properties of extensions *)

\* the namespace the last extend returned
Returned == spaces[Len(spaces)]

\* the definitions of the last extend that target a type, by position
DefinitionsOf(type) ==
    {i \in 1..Len(ext.extensions) : ext.extensions[i].type = type}

Several(type) == Cardinality(DefinitionsOf(type)) >= 2

LastOf(positions) == CHOOSE i \in positions : \A j \in positions : j <= i

\* the positions among those given whose definition has a key, in rules or messages
Defining(positions, part, key) ==
    {i \in positions : key \in DOMAIN ext.extensions[i][part]}

KeysOf(positions, part) == UNION {DOMAIN ext.extensions[i][part] : i \in positions}

\* the part (rules or messages) of the returned type has every key of the
\* definitions, each as its last definition gives it
Merged(type, part) ==
    \A key \in KeysOf(DefinitionsOf(type), part) :
        /\ key \in DOMAIN Returned.props[type][part]
        /\ Returned.props[type][part][key] =
                ext.extensions[LastOf(Defining(DefinitionsOf(type), part, key))][part][key]

\* every definition of the type after the first takes as its base the type of
\* that name built so far (joi[type]() of the namespace under construction)
Chained(type) ==
    \A i \in DefinitionsOf(type) :
        (\E j \in DefinitionsOf(type) : j < i) => ext.extensions[i].base = OfJoi(type)

\* C13: an extend call leaves every namespace that existed before it as it
\* was, the one it was called on included (same factories, same types with the
\* same rules, same set of known types), and the namespace it returns has the
\* types of the extensions, in its factories and in its set of known types
C13_ExtensionScoping ==
    [][Len(spaces') > Len(spaces) =>
            /\ \A i \in 1..Len(spaces) :
                    /\ spaces'[i] = spaces[i]
                    /\ sets'[spaces[i].types] = sets[spaces[i].types]
            /\ Named(ext'.extensions) \subseteq DOMAIN spaces'[Len(spaces')].props
            /\ sets'[spaces'[Len(spaces')].types] =
                    sets[spaces[ext'.on].types] \cup Named(ext'.extensions)]_vars

\* two extend calls were made on Joi and then on the returned namespace; Joi has
\* no factory for the new type and its number type has not the new rule, while
\* the returned namespaces know one type more
C13_Witness ==
    /\ ext.op = "extend" /\ ext.on = 2 /\ Len(spaces) = 3
    /\ "special" \notin DOMAIN spaces[1].props
    /\ "special" \in DOMAIN spaces[2].props
    /\ "foo" \notin DOMAIN spaces[1].props.number.rules
    /\ "foo" \in DOMAIN Returned.props.number.rules
    /\ Cardinality(sets[spaces[1].types]) = 3
    /\ Cardinality(sets[Returned.types]) = 4

\* C14 as stated: whenever several definitions of one extend call target the
\* same type, the returned type has the rules and messages of all of them,
\* the later definition winning on a shared key
C14_ExtensionMergeAlways ==
    ext.op = "extend" =>
        \A type \in Named(ext.extensions) :
            Several(type) => Merged(type, "rules") /\ Merged(type, "messages")

\* C14: when several definitions of one extend call target the same type and
\* every later one takes as its base the type built so far, the returned type
\* has the rules and messages of all of them, the later definition winning on
\* a shared key
C14_ExtensionMerge ==
    ext.op = "extend" =>
        \A type \in Named(ext.extensions) :
            Several(type) /\ Chained(type) =>
                Merged(type, "rules") /\ Merged(type, "messages")

\* two definitions of special, the second on joi.special(), share the rule foo
\* and its message: the returned type has those of the second
C14_Witness ==
    /\ ext.op = "extend" /\ Several("special") /\ Chained("special")
    /\ "foo" \in DOMAIN ext.extensions[1].rules
    /\ "foo" \in DOMAIN ext.extensions[2].rules
    /\ ext.extensions[1].rules.foo /= ext.extensions[2].rules.foo
    /\ Returned.props.special.rules.foo = ext.extensions[2].rules.foo
    /\ Returned.props.special.messages[<<"special", "foo">>] = "second"

LastDefinition(type) == ext.extensions[LastOf(DefinitionsOf(type))]

\* the rules only the definitions before the last one of a type contribute
EarlierRules(type) ==
    KeysOf(DefinitionsOf(type) \ {LastOf(DefinitionsOf(type))}, "rules")
        \ DOMAIN LastDefinition(type).rules

\* the definitions of the type do not all name the same base
DifferentBases(type) ==
    \E i, j \in DefinitionsOf(type) : ext.extensions[i].base /= ext.extensions[j].base

\* C15 as stated: whenever several definitions of one extend call target the
\* same type with different bases, no rule of an earlier definition is a method
\* of the returned type and the rules of the last definition are
C15_LastBaseDropsEarlier ==
    ext.op = "extend" =>
        \A type \in Named(ext.extensions) :
            Several(type) /\ DifferentBases(type) =>
                /\ EarlierRules(type) \cap DOMAIN Returned.props[type].rules = {}
                /\ DOMAIN LastDefinition(type).rules \subseteq DOMAIN Returned.props[type].rules

\* the last definition of the type takes its base from outside the namespace
\* under construction: a schema of Joi, or none (any of the namespace extended)
OutsideBase(type) == LastDefinition(type).base.from /= "joi"

\* the rules of that outside base
OutsideRules(type) ==
    IF LastDefinition(type).base.from = "none" THEN spaces[ext.on].props.any.rules
    ELSE spaces[1].props[LastDefinition(type).base.type].rules

\* C15: when several definitions of one extend call target the same type and
\* the last one takes its base from outside the namespace under construction,
\* the methods of the returned type are exactly the rules of that base and of
\* the last definition: a rule of an earlier definition is a method only if
\* the base or the last definition has it
C15_LastBaseWins ==
    ext.op = "extend" =>
        \A type \in Named(ext.extensions) :
            Several(type) /\ OutsideBase(type) =>
                /\ DOMAIN Returned.props[type].rules =
                        DOMAIN OutsideRules(type) \cup DOMAIN LastDefinition(type).rules
                /\ \A rule \in DOMAIN LastDefinition(type).rules :
                        Returned.props[type].rules[rule] = LastDefinition(type).rules[rule]

\* special defined on Joi.number() with foo and then on Joi.string() with bar:
\* the returned type has bar and the rules of string, not foo
C15_Witness ==
    /\ ext.op = "extend" /\ Several("special")
    /\ ext.extensions[1].base = OfRoot("number")
    /\ ext.extensions[2].base = OfRoot("string")
    /\ "foo" \in DOMAIN ext.extensions[1].rules
    /\ DOMAIN Returned.props.special.rules = {"bar", "min", "trim"}

\* the last call used a rule whose validate function gives an error code that
\* has no template in the messages of the type, those of its bases included
MissingMessage ==
    /\ ext.op = "use"
    /\ ext.rule \in DOMAIN spaces[ext.on].props[ext.type].rules
    /\ "error" \in DOMAIN spaces[ext.on].props[ext.type].rules[ext.rule]
    /\ spaces[ext.on].props[ext.type].rules[ext.rule].error
            \notin DOMAIN spaces[ext.on].props[ext.type].messages

\* C16 as stated: a rule that gives an error code without a template makes
\* validate throw, and no value is accepted
C16_MissingMessageThrows ==
    MissingMessage => IsThrown(ext.result) /\ "value" \notin DOMAIN ext.result

\* C16: a rule that gives an error code without a template makes validate
\* return an error in its result, whose message is the notice that this code
\* is not defined; validate does not throw and no value is accepted
C16_MissingMessage ==
    MissingMessage =>
        /\ ~IsThrown(ext.result)
        /\ "value" \notin DOMAIN ext.result
        /\ "error" \in DOMAIN ext.result
        /\ ext.result.error.code = spaces[ext.on].props[ext.type].rules[ext.rule].error
        /\ ext.result.error.message = NotDefined(ext.result.error.code)

\* special().fail() of the type whose rule gives special.fail without a message
C16_Witness ==
    /\ MissingMessage /\ ext.type = "special" /\ ext.rule = "fail"
    /\ ext.result.error.message = NotDefined(<<"special", "fail">>)

-----------------------------------------------------------------------------
(* Properties of alternatives *)

\* the i-th entry of the matches of the last schema
Entry(i) == Last.terms.matches[i]

\* a result without errors
Passes(result) == ~IsThrown(result) /\ result.errors = <<>>

\* what the condition of the i-th entry, a conditional one, is tested on: the
\* value its reference reads, or the value itself for a schema condition
Input(i) ==
    IF Has(Entry(i), "is")
    THEN Resolve(Entry(i).ref, out.value, out.state, out.prefs, Undefined, NoOptions)
    ELSE out.value

\* the condition of the i-th entry matches
Matches(i) ==
    /\ ~IsThrown(Input(i))
    /\ Passes(Validate(IF Has(Entry(i), "is") THEN Entry(i).is ELSE Entry(i).peek,
                       Input(i), out.state, out.prefs))

\* the i-th entry produces the result of the alternatives when it is reached
Produces(i) ==
    IF Has(Entry(i), "schema") THEN Passes(Branch(i))
    ELSE IF IsThrown(Input(i)) THEN TRUE
    ELSE IF Matches(i) THEN Has(Entry(i), "then")
    ELSE Has(Entry(i), "otherwise")

\* the errors of the try() schemas among the first i entries, in order
RECURSIVE Collected(_)
Collected(i) ==
    IF i = 0 THEN <<>>
    ELSE Collected(i - 1) \o (IF Has(Entry(i), "schema") THEN Branch(i).errors ELSE <<>>)

\* a validation of the last schema, an alternatives, in which no entry produced
\* a result
NoResult ==
    /\ out.op = "validate" /\ Last.type = "alternatives"
    /\ ~IsThrown(out.result)
    /\ \A i \in 1..Len(Last.terms.matches) : ~Produces(i)

\* the code has the form <type>.base
BaseCode(code) == Len(code) = 2 /\ code[2] = "base"

\* C21: when no entry of an alternatives produces a result, the errors E of its
\* failed try() schemas decide the result: alternatives.base when E is empty, E
\* itself when it is one error, and otherwise one aggregate error,
\* alternatives.types with the types of the codes in order when every code of E
\* is <type>.base, alternatives.match when not
C21_FailureAggregation ==
    NoResult =>
        LET E == Collected(Len(Last.terms.matches))
        IN  IF E = <<>> THEN Codes(out.result) = <<<<"alternatives", "base">>>>
            ELSE IF Len(E) = 1 THEN out.result.errors = E
            ELSE /\ Len(out.result.errors) = 1
                 /\ IF \A i \in 1..Len(E) : BaseCode(E[i].code)
                    THEN /\ out.result.errors[1].code = <<"alternatives", "types">>
                         /\ out.result.errors[1].local.types = [i \in 1..Len(E) |-> E[i].code[1]]
                    ELSE out.result.errors[1].code = <<"alternatives", "match">>

\* a number and a string of at least 3 characters were tried on a shorter string:
\* number.base and string.min were collected, and the result is alternatives.match
C21_Witness ==
    /\ NoResult
    /\ Codes([errors |-> Collected(Len(Last.terms.matches))])
            = << <<"number", "base">>, <<"string", "min">> >>
    /\ Codes(out.result) = <<<<"alternatives", "match">>>>

\* the i-th entry is the first that produces a result
FirstProducing(i) == Produces(i) /\ \A j \in 1..(i - 1) : ~Produces(j)

\* what the i-th entry, a conditional one, gives: the validation of the value by
\* then when its condition matches and by otherwise when not
Chosen(i) ==
    Validate(IF Matches(i) THEN Entry(i).then ELSE Entry(i).otherwise,
             out.value, out.state, out.prefs)

\* C29: a conditional entry gives the validation of the value by its then when
\* the condition matches and by its otherwise when not, and is passed over when
\* it has no then for a match or no otherwise for a mismatch; the result of the
\* first entry that gives one is the result of the alternatives, without the
\* errors of the try() schemas that failed before it
C29_ConditionalFallThrough ==
    (out.op = "validate" /\ Last.type = "alternatives" /\ ~IsThrown(out.result)) =>
        \A i \in 1..Len(Last.terms.matches) :
            FirstProducing(i) /\ ~Has(Entry(i), "schema") =>
                /\ out.result.errors = Chosen(i).errors
                /\ out.result.value = Chosen(i).value

\* a try() schema failed and a conditional entry was passed over before the
\* entry whose then rejected the value: only the errors of then are reported
C29_Witness ==
    /\ out.op = "validate" /\ Last.type = "alternatives" /\ ~IsThrown(out.result)
    /\ \E i \in 1..Len(Last.terms.matches) :
            /\ FirstProducing(i) /\ ~Has(Entry(i), "schema")
            /\ Collected(i - 1) /= <<>>
            /\ \E j \in 1..(i - 1) : ~Has(Entry(j), "schema")
            /\ Chosen(i).errors /= <<>>
            /\ out.result.errors = Chosen(i).errors

\* the positions of the entries of a schema that have both then and otherwise
Terminal(schema) ==
    {i \in 1..Len(schema.terms.matches) :
        Has(schema.terms.matches[i], "then") /\ Has(schema.terms.matches[i], "otherwise")}

\* at most one entry has both then and otherwise, and it is the last entry
TerminalLast(schema) == Terminal(schema) \subseteq {Len(schema.terms.matches)}

\* no try() and no when() gave a schema when called on a schema with such an entry
NothingAfterTerminal == \A k \in 1..(Len(chain) - 1) : Terminal(chain[k]) = {}

\* the last call, made on a schema with such an entry, threw
ThrownAfterTerminal == out.op = "thrown" /\ Terminal(Last) /= {}

\* the check of its own arguments a call fails before _endedSwitch is looked at:
\* try() without schemas, when() with an option it does not know
FailsEarlier ==
    IF out.method = "try" THEN out.args.schemas = Undefined
    ELSE DOMAIN out.args.options \ {"is", "then", "otherwise", "switch"} /= {}

\* C28 as stated: in every alternatives built by try() and when() calls at most
\* one entry has both then and otherwise and it is the last, and every call on a
\* schema with such an entry throws 'Unreachable condition' and adds nothing
C28_TerminalSwitchUnreachable ==
    /\ \A k \in 1..Len(chain) : chain[k].type = "alternatives" => TerminalLast(chain[k])
    /\ (chain /= <<>> /\ Last.type = "alternatives") =>
            /\ NothingAfterTerminal
            /\ ThrownAfterTerminal => out.message = "Unreachable condition"

\* C28: in every alternatives built by try() and when() calls at most one entry
\* has both then and otherwise and it is the last; every call on a schema with
\* such an entry throws and adds nothing, with 'Unreachable condition' unless
\* the call fails an earlier check of its own arguments, whose error it then
\* throws ('Missing alternative schemas', unknown option keys)
C28_TerminalSwitch ==
    /\ \A k \in 1..Len(chain) : chain[k].type = "alternatives" => TerminalLast(chain[k])
    /\ (chain /= <<>> /\ Last.type = "alternatives") =>
            /\ NothingAfterTerminal
            /\ ThrownAfterTerminal =>
                    out.message = IF ~FailsEarlier THEN "Unreachable condition"
                                  ELSE IF out.method = "try" THEN "Missing alternative schemas"
                                  ELSE "Options contain unknown keys: unknown"

\* after a try() and a when() with then and otherwise, whose entry is the last
\* of two, a further try() with a schema threw 'Unreachable condition'
C28_Witness ==
    /\ ThrownAfterTerminal /\ ~FailsEarlier
    /\ out.method = "try" /\ out.message = "Unreachable condition"
    /\ Len(Last.terms.matches) = 2 /\ Terminal(Last) = {2}

-----------------------------------------------------------------------------
(* Properties of the reference manager *)

\* the entries the last registration added to the manager
Added == SubSeq(Last.refs, Len(out.before) + 1, Len(Last.refs))

\* how many entries of refs have the ancestor and the root
Count(refs, ancestor, root) ==
    Cardinality({i \in 1..Len(refs) : refs[i].ancestor = ancestor /\ refs[i].root = root})

\* the roots of the entries of two managers
RootsOf(a, b) == {a[i].root : i \in 1..Len(a)} \cup {b[i].root : i \in 1..Len(b)}

\* C25: registering a child schema into the manager of a node keeps the entries
\* the manager had and adds one entry per entry of the child whose ancestor,
\* lowered by one for a descendant and kept for a sibling, is not negative, with
\* that ancestor and the same root; no entry of any manager has a negative
\* ancestor, and the manager of the child is as it was
C25_RegisterShifts ==
    /\ \A k \in 1..Len(chain) : \A i \in 1..Len(chain[k].refs) : chain[k].refs[i].ancestor >= 0
    /\ (out.op = "register" /\ out.child > 0) =>
            /\ SubSeq(Last.refs, 1, Len(out.before)) = out.before
            /\ chain[out.child] = out.source
            /\ \A ancestor \in 0..(MaxRegisters + 2), root \in RootsOf(Added, out.source.refs) :
                    Count(Added, ancestor, root) =
                        Count(out.source.refs, ancestor + out.family, root)
            /\ Len(Added) =
                    Cardinality({i \in 1..Len(out.source.refs) :
                                    out.source.refs[i].ancestor - out.family >= 0})

\* a child holding a reference to its own key (ancestor 0) and one to a key of
\* its grandparent (ancestor 2) was registered as a descendant: only the second
\* was added, with ancestor 1
C25_Witness ==
    /\ out.op = "register" /\ out.child > 0 /\ out.family = ToParent
    /\ \E i, j \in 1..Len(out.source.refs) :
            out.source.refs[i].ancestor = 0 /\ out.source.refs[j].ancestor = 2
    /\ Len(out.source.refs) = 2
    /\ Added = <<[ancestor |-> 1, root |-> <<"b">>]>>

-----------------------------------------------------------------------------
(* Properties of the truncation of strings *)

\* a validation with prefs.convert of a string by the last schema, a string
\* schema with the truncate flag and a max rule whose limit is a number
Truncating ==
    /\ out.op = "validate" /\ Last.type = "string" /\ out.prefs.convert
    /\ out.value.t = "string"
    /\ Flag(Last, "truncate") = <<TRUE>> /\ HasRule(Last, "max")
    /\ ~IsResolvable(GetRule(Last, "max").args.limit)

\* what the coerce hook gives for the value when the schema does not truncate
Untruncated ==
    StringCoerce(SetFlag(Last, "truncate", FALSE), out.value, out.state, out.prefs).value.s

-----------------------------------------------------------------------------
(* Properties of warnings *)

\* the schema without the rules any.warning attached
RECURSIVE Fatal(_)
Fatal(rules) ==
    IF rules = <<>> THEN <<>>
    ELSE IF Head(rules).name = "warning" THEN Fatal(Tail(rules))
    ELSE <<Head(rules)>> \o Fatal(Tail(rules))

WithoutWarnings(schema) == [schema EXCEPT !.rules = Fatal(@)]

\* the steps of a trace other than the warning rules
RECURSIVE FatalSteps(_)
FatalSteps(trace) ==
    IF trace = <<>> THEN <<>>
    ELSE IF Head(trace).step = "warning" THEN FatalSteps(Tail(trace))
    ELSE <<Head(trace)>> \o FatalSteps(Tail(trace))

\* the errors of the first n warning rules of the ruleset
RECURSIVE WarningsOf(_, _)
WarningsOf(rules, n) ==
    IF rules = <<>> \/ n = 0 THEN <<>>
    ELSE IF Head(rules).name = "warning"
    THEN <<Error(Head(rules).args.code.s, Head(rules).args.local)>>
            \o WarningsOf(Tail(rules), n - 1)
    ELSE WarningsOf(Tail(rules), n)

\* a validation by a schema with a rule attached by any.warning
Warning ==
    /\ out.op = "validate" /\ ~IsThrown(out.result)
    /\ \E i \in 1..Len(Last.rules) : Last.rules[i].name = "warning"

\* C22: a failing rule with warn is recorded as a warning and changes nothing
\* else: the value, the errors and the other steps of the validation are those
\* of the schema without its warning rules, the warnings returned are the
\* errors of the warning rules that ran, in order, and a value that fails
\* nothing but warning rules is accepted with the warnings of all of them
C22_WarningsNonFatal ==
    Warning =>
        LET alone == Validate(WithoutWarnings(Last), out.value, out.state, out.prefs)
            ran == Len(out.result.trace) - Len(FatalSteps(out.result.trace))
        IN  /\ out.result.value = alone.value
            /\ out.result.errors = alone.errors
            /\ FatalSteps(out.result.trace) = alone.trace
            /\ out.result.warnings = WarningsOf(Last.rules, ran)
            /\ \A i \in 1..Len(out.result.errors) :
                    out.result.errors[i].code[1] /= "custom"
            /\ alone.errors = <<>>
                    => out.result.warnings = WarningsOf(Last.rules, Len(Last.rules))

\* warning('custom.x').min(3).warning('custom.y') on 'aAa': both warnings are
\* returned, min ran between them and the value is accepted
C22_Witness ==
    /\ Warning
    /\ out.value = Str(<<"a", "A", "a">>)
    /\ Len(Last.rules) = 3
    /\ Warns(Last.rules[1]) /\ Last.rules[2].name = "min" /\ Warns(Last.rules[3])
    /\ out.result.errors = <<>>
    /\ out.result.warnings = <<Error(<<"custom", "x">>, Undefined),
                               Error(<<"custom", "y">>, Undefined)>>
    /\ [i \in 1..Len(out.result.trace) |-> out.result.trace[i].step]
            \in {<<"validate", "warning", "min", "warning">>,
                 <<"coerce", "validate", "warning", "min", "warning">>}

-----------------------------------------------------------------------------
(* Properties of the coerce hooks of extended types *)

\* the methods called by the validation, and the value each call returned
HooksCalled == out.result.called
HookReturned(j) == CoerceMethod(chain[HooksCalled[j].of].own.method, HooksCalled[j].value)

\* the value before the j-th call: the last value a call before it returned,
\* or the value given to validate
RECURSIVE CurrentAt(_)
CurrentAt(j) ==
    IF j = 1 THEN out.value
    ELSE IF HookReturned(j - 1) /= Nothing THEN HookReturned(j - 1).value
    ELSE CurrentAt(j - 1)

\* the types between two types of the chain, and after the last one called,
\* whose hook was not called
Skipped(from, to) == {k \in (from + 1)..(to - 1) : chain[k].own /= Null}

\* the expectations of 'extends coerce (from different types)' and 'extends
\* coerce (no from on parent)'
TestTypes(from) ==
    /\ Len(chain) = 3
    /\ chain[2].own = Hook(from, "type1", 2)
    /\ chain[3].own = Hook({"number"}, "type2", 3)

TestExpects ==
    [v \in CoerceValues \ {Bool(TRUE)} |->
        IF v \in {Str(<<"2">>), Num(2)} THEN [value |-> Str(<<"x">>), errors |-> <<>>]
        ELSE IF v = Str(<<"1">>)
        THEN [value |-> v, errors |-> <<Error(<<"type1", "error">>, <<>>)>>]
        ELSE IF v = Num(4)
        THEN [value |-> v, errors |-> <<Error(<<"type2", "error">>, <<>>)>>]
        ELSE [value |-> v, errors |-> <<>>]]

\* C27: the hooks of a type and of its bases are called base first; a hook is
\* called when the value of the moment has the type the hook declares, or the
\* hook declares none, and no hook before it returned errors or a value of
\* undefined; it is given the value the hooks before it produced; the result of
\* the validation is the last result returned; the expectations of the tests hold
C27_CoerceChaining ==
    out.op = "coerce" =>
        /\ \A j \in 1..Len(HooksCalled) :
            LET hook == chain[HooksCalled[j].of].own
            IN  /\ j > 1 => HooksCalled[j - 1].of < HooksCalled[j].of
                /\ j > 1 => ~Final(HookReturned(j - 1))
                /\ HooksCalled[j].value = CurrentAt(j)
                /\ hook.from /= {} => TypeOf(HooksCalled[j].value) \in hook.from
                /\ \A k \in Skipped(IF j = 1 THEN 1 ELSE HooksCalled[j - 1].of, HooksCalled[j].of) :
                        TypeOf(CurrentAt(j)) \notin chain[k].own.from
        /\ LET n == Len(HooksCalled)
               current == IF n = 0 THEN out.value
                          ELSE IF HookReturned(n) /= Nothing /\ Has(HookReturned(n), "value")
                          THEN HookReturned(n).value
                          ELSE CurrentAt(n)
               final == n > 0 /\ Final(HookReturned(n))
           IN  /\ ~final => \A k \in Skipped(IF n = 0 THEN 1 ELSE HooksCalled[n].of, Len(chain) + 1) :
                                TypeOf(current) \notin chain[k].own.from
               /\ out.result.value = current
               /\ out.result.errors =
                    IF n > 0 /\ HookReturned(n) /= Nothing /\ Has(HookReturned(n), "errors")
                    THEN <<Error(HookReturned(n).errors, <<>>)>> ELSE <<>>
        /\ (TestTypes({"string"}) \/ TestTypes({})) /\ out.value /= Bool(TRUE)
                => /\ out.result.value = TestExpects[out.value].value
                   /\ out.result.errors = TestExpects[out.value].errors

\* type2.validate('2') of the test: the hook of type1 turns '2' into 2 and the
\* hook of type2, from number, turns 2 into 'x'
C27_Witness ==
    /\ out.op = "coerce"
    /\ TestTypes({"string"})
    /\ out.value = Str(<<"2">>)
    /\ HooksCalled = <<[of |-> 2, value |-> Str(<<"2">>)], [of |-> 3, value |-> Num(2)]>>
    /\ out.result.value = Str(<<"x">>)

-----------------------------------------------------------------------------
(* Properties of two validations of one schema *)

\* what the i-th call returns when it is the only call on the schema as built
Alone(i) ==
    Validate(out.schema, out.call[i].value, out.call[i].state, out.call[i].prefs)

\* C23: however the steps of two validations of one schema are interleaved,
\* each returns what it returns when run alone, and no step writes to the
\* schema: the schema stays as it was when the calls were entered
C23_Reentrancy ==
    out.op = "calls" =>
        /\ Last = out.schema
        /\ \A i \in {1, 2} : out.call[i].pc = "done" => out.call[i].result = Alone(i)

-----------------------------------------------------------------------------
(* Properties of object schemas *)

\* a validation of an object by an object schema
ObjectValidated ==
    /\ out.op = "object" /\ out.value.t = "object" /\ ~IsThrown(out.result)

\* the visit of the keys in the trace of the validation
Looped == out.result.trace[Len(out.result.trace)]

\* the caller's object after the call
InputAfterwards == IF ObjectValidated THEN Looped.value ELSE out.value

\* the children visited, in the order of the visits
Children == Looped.children

IsSiblingRef(x, key) ==
    IsRef(x) /\ x.type = "value" /\ x.ancestor = 1 /\ x.root = key

References(schema, key) ==
    \/ \E i \in 1..Len(schema.allow) : IsSiblingRef(schema.allow[i], key)
    \/ /\ schema.type = "alternatives"
       /\ \E i \in 1..Len(schema.terms.matches) :
            IsSiblingRef(ItemGet(schema.terms.matches[i], "ref"), key)

\* where the key is among the children visited, 0 when it was not
Visit(key) ==
    IF \E i \in 1..Len(Children) : Children[i].key = key
    THEN CHOOSE i \in 1..Len(Children) : Children[i].key = key
    ELSE 0

\* C26: in an object schema, a key whose schema references the sibling key k
\* is validated after k, whatever the order the keys were declared in, and the
\* reference resolves to the value of k after the coercion of k
C26_SiblingOrder ==
    ObjectValidated =>
        \A d \in 1..Len(Last.terms.keys), k \in 1..Len(Last.terms.keys) :
            LET child == Last.terms.keys[d]
                sibling == Last.terms.keys[k]
                at == Visit(child.key)
                before == Visit(sibling.key)
            IN  References(child.schema, sibling.key) =>
                    /\ k < d
                    /\ at > 0 => (before > 0 /\ before < at)
                    /\ (at > 0 /\ before > 0 /\ Children[before].result.errors = <<>>) =>
                            Children[at].result =
                                Validate(child.schema, Children[at].item,
                                         Nest(out.state,
                                              With(out.value, sibling.key,
                                                   Children[before].result.value),
                                              Null),
                                         out.prefs)

=============================================================================
